---- MODULE Spec2Model ----
(***************************************************************************)
(* Interest-rate curve engine and leveraged-yield calculator of the vault  *)
(* cluster dashboard (src/vault.py, src/strategy.py, src/main.py).         *)
(*                                                                         *)
(* Seven specifications share this module:                                 *)
(*   SpecDecode  decode_kink_params applied to hex blobs (exact integers). *)
(*   SpecApy     to_apy applied to pairs of per-second rates.              *)
(*   SpecYield   Strategy.calculate_current_yield / calculate_caps_yield.  *)
(*   SpecVault   the snapshot get_vault_info_json builds from raw data,    *)
(*               and Strategy.calculate_yield_with_utilization.            *)
(*   SpecStrategies  construct_strategies and the strategy rows built from *)
(*               its candidates, over mappings of Vault objects.           *)
(*   SpecApp     the runs of render in src/main.py: the presets file, the  *)
(*               session state and the Vault objects it holds.             *)
(*   SpecRefresh one Vault object constructed and refreshed repeatedly.    *)
(*                                                                         *)
(* Python integers are unbounded; they are modelled as little-endian limb  *)
(* sequences in base 4096 so that products beyond 2^256 are exact.         *)
(***************************************************************************)
EXTENDS Integers, Sequences, FiniteSets, TLC

VARIABLES
    hex_str,      \* decode_kink_params: its argument
    dec,          \* decode_kink_params: what the call returned or raised
    locals,       \* decode_kink_params: its locals when it returned or raised
    strategy,     \* a Strategy object
    yield_call,   \* the last yield method called on it: locals and outcome
    full_data,    \* get_vault_info_json: the vault's on-chain data, mapped to the schema
    snapshot,     \* get_vault_info_json: what the call returned or raised
    apy_call,     \* to_apy: two per-second rates and what it gave for each
    presets_file, \* main.py: the content of PRESET_FILE, a list of clusters
    chain,        \* what fetch_vault_info gives for each vault address
    session_state,\* main.py: st.session_state, with the Vault objects it refers to
    last_run    \* main.py: the last run of render: what set it off and how it ended

decodeVars == <<hex_str, dec, locals>>
yieldVars == <<strategy, yield_call>>
vaultVars == <<full_data, snapshot>>
apyVars == <<apy_call>>
appVars == <<presets_file, chain, session_state, last_run>>
vars == <<hex_str, dec, locals, strategy, yield_call, full_data, snapshot,
          apy_call, presets_file, chain, session_state, last_run>>

(***************************************************************************)
(* Unbounded naturals: little-endian limbs, base 4096, no leading zero     *)
(* limb; <<>> is zero.  Carries are resolved by look-ahead and sums by     *)
(* halving, so that the evaluation depth stays logarithmic in the length.  *)
(***************************************************************************)
LimbBase == 16 * 16 * 16

SetMax(S) == CHOOSE x \in S : \A y \in S : y <= x

NatNorm(a) ==
    LET nz == {i \in 1..Len(a) : a[i] # 0}
    IN IF nz = {} THEN <<>> ELSE SubSeq(a, 1, SetMax(nz))

NatOfSmall(n) ==
    IF n = 0 THEN <<>>
    ELSE IF n < LimbBase THEN <<n>>
    ELSE IF n < LimbBase * LimbBase THEN <<n % LimbBase, n \div LimbBase>>
    ELSE <<n % LimbBase, (n \div LimbBase) % LimbBase, n \div (LimbBase * LimbBase)>>

Limb(a, i) == IF i >= 1 /\ i <= Len(a) THEN a[i] ELSE 0

NatAdd(a, b) ==
    LET n == (IF Len(a) > Len(b) THEN Len(a) ELSE Len(b)) + 1
        s == [i \in 1..n |-> Limb(a, i) + Limb(b, i)]
        carry(i) == IF \E j \in 1..(i - 1) :
                          s[j] >= LimbBase /\ \A k \in (j + 1)..(i - 1) : s[k] = LimbBase - 1
                    THEN 1 ELSE 0
    IN NatNorm([i \in 1..n |-> (s[i] + carry(i)) % LimbBase])

\* a - b for a >= b
NatSub(a, b) ==
    LET n == Len(a)
        d == [i \in 1..n |-> Limb(a, i) - Limb(b, i)]
        borrow(i) == IF \E j \in 1..(i - 1) :
                           d[j] < 0 /\ \A k \in (j + 1)..(i - 1) : d[k] = 0
                     THEN 1 ELSE 0
    IN NatNorm([i \in 1..n |-> (d[i] - borrow(i) + LimbBase) % LimbBase])

\* -1, 0, 1 as a < b, a = b, a > b (both without leading zero limbs)
NatCmp(a, b) ==
    IF Len(a) < Len(b) THEN -1
    ELSE IF Len(a) > Len(b) THEN 1
    ELSE LET diff == {i \in 1..Len(a) : a[i] # b[i]}
         IN IF diff = {} THEN 0
            ELSE IF a[SetMax(diff)] < b[SetMax(diff)] THEN -1 ELSE 1

NatLe(a, b) == NatCmp(a, b) <= 0
NatLt(a, b) == NatCmp(a, b) < 0

\* f[lo] + ... + f[hi]
RECURSIVE SumRange(_, _, _)
SumRange(f, lo, hi) ==
    IF lo > hi THEN 0
    ELSE IF lo = hi THEN f[lo]
    ELSE LET mid == (lo + hi) \div 2
         IN SumRange(f, lo, mid) + SumRange(f, mid + 1, hi)

\* schoolbook product: column sums, then the three limbs of every column added
NatMul(a, b) ==
    IF a = <<>> \/ b = <<>> THEN <<>>
    ELSE LET n == Len(a) + Len(b)
             col == [k \in 1..n |->
                        LET lo == IF k - Len(b) + 1 > 1 THEN k - Len(b) + 1 ELSE 1
                            hi == IF k < Len(a) THEN k ELSE Len(a)
                        IN SumRange([i \in lo..hi |-> a[i] * b[k + 1 - i]], lo, hi)]
             c0 == [k \in 1..n |-> col[k] % LimbBase]
             c1 == [k \in 1..n |-> (col[k] \div LimbBase) % LimbBase]
             c2 == [k \in 1..n |-> col[k] \div (LimbBase * LimbBase)]
         IN NatAdd(NatAdd(c0, <<0>> \o c1), <<0, 0>> \o c2)

NatMulSmall(a, k) == NatMul(a, NatOfSmall(k))

RECURSIVE SmallPow(_, _)
SmallPow(b, n) == IF n = 0 THEN 1 ELSE b * SmallPow(b, n - 1)

\* b^n mod p by repeated squaring
RECURSIVE PowMod(_, _, _)
PowMod(b, n, p) ==
    IF n = 0 THEN 1 % p
    ELSE LET h == PowMod(b, n \div 2, p)
         IN IF n % 2 = 0 THEN (h * h) % p ELSE (((h * h) % p) * (b % p)) % p

\* (a[lo] + a[lo+1]*4096 + ... ) mod p, for a modulus p < 2^15
RECURSIVE NatModRange(_, _, _, _)
NatModRange(a, p, lo, hi) ==
    IF lo > hi THEN 0
    ELSE IF lo = hi THEN a[lo] % p
    ELSE LET mid == (lo + hi) \div 2
         IN (NatModRange(a, p, lo, mid)
               + PowMod(LimbBase, mid - lo + 1, p) * NatModRange(a, p, mid + 1, hi)) % p

NatModSmall(a, p) == NatModRange(a, p, 1, Len(a))

\* floor(a / k) for 0 < k <= 4096
NatDivSmall(a, k) ==
    NatNorm([i \in 1..Len(a) |->
                (NatModRange(a, k, i + 1, Len(a)) * LimbBase + a[i]) \div k])

\* 2^n (12 bits per limb)
NatPow2(n) == [i \in 1..((n \div 12) + 1) |->
                  IF i = (n \div 12) + 1 THEN SmallPow(2, n % 12) ELSE 0]

RECURSIVE SmallBitLen(_)
SmallBitLen(n) == IF n = 0 THEN 0 ELSE 1 + SmallBitLen(n \div 2)

\* number of bits of a (0 for zero)
NatBitLen(a) == IF a = <<>> THEN 0 ELSE 12 * (Len(a) - 1) + SmallBitLen(a[Len(a)])

\* floor(a / 2^n)
NatShr(a, n) ==
    LET drop == n \div 12
        rest == IF drop >= Len(a) THEN <<>> ELSE SubSeq(a, drop + 1, Len(a))
    IN NatDivSmall(rest, SmallPow(2, n % 12))

\* a * 2^n
NatShl(a, n) ==
    IF a = <<>> THEN <<>>
    ELSE [i \in 1..(n \div 12) |-> 0] \o NatMulSmall(a, SmallPow(2, n % 12))

\* TRUE iff some bit of a below bit n is set
NatLowBits(a, n) == NatShl(NatShr(a, n), n) # a

NatOdd(a) == a # <<>> /\ a[1] % 2 = 1

(***************************************************************************)
(* Python int: sign and magnitude.                                         *)
(***************************************************************************)
IntOfNat(a) == [neg |-> FALSE, mag |-> a]

IntNeg(x) == [neg |-> (~x.neg) /\ x.mag # <<>>, mag |-> x.mag]

IntAdd(x, y) ==
    IF x.neg = y.neg THEN [neg |-> x.neg, mag |-> NatAdd(x.mag, y.mag)]
    ELSE IF NatLe(y.mag, x.mag)
         THEN LET m == NatSub(x.mag, y.mag) IN [neg |-> x.neg /\ m # <<>>, mag |-> m]
         ELSE [neg |-> y.neg, mag |-> NatSub(y.mag, x.mag)]

IntSub(x, y) == IntAdd(x, IntNeg(y))

IntMul(x, y) ==
    LET m == NatMul(x.mag, y.mag)
    IN [neg |-> (x.neg # y.neg) /\ m # <<>>, mag |-> m]

IntLe(x, y) ==
    IF x.neg /\ ~y.neg THEN TRUE
    ELSE IF ~x.neg /\ y.neg THEN FALSE
    ELSE IF x.neg THEN NatLe(y.mag, x.mag)
    ELSE NatLe(x.mag, y.mag)

\* One step of long division: cur is the running remainder with the next limb
\* appended, qs the quotient limbs found so far.  d has its top limb >= 2048,
\* so the quotient of the two leading limbs of cur by the leading limb of d
\* overshoots the true quotient limb by at most 2.
NatDivStep(cur, d, qs) ==
    LET Take(ql) == [q |-> <<ql>> \o qs, r |-> NatSub(cur, NatMulSmall(d, ql))]
        Fit(est) == Take(IF NatLe(NatMulSmall(d, est), cur) THEN est
                         ELSE IF NatLe(NatMulSmall(d, est - 1), cur) THEN est - 1
                         ELSE est - 2)
        Estimate(top) == Fit(IF top \div d[Len(d)] > LimbBase - 1 THEN LimbBase - 1
                             ELSE top \div d[Len(d)])
    IN Estimate(Limb(cur, Len(d) + 1) * LimbBase + Limb(cur, Len(d)))

RECURSIVE NatDivModAt(_, _, _)
NatDivModAt(n, d, i) ==
    IF i > Len(n) - Len(d) + 1
    THEN [q |-> <<>>, r |-> IF i > Len(n) THEN <<>> ELSE NatNorm(SubSeq(n, i, Len(n)))]
    ELSE LET up == NatDivModAt(n, d, i + 1)
         IN IF up.r = <<>>
            THEN NatDivStep(NatOfSmall(n[i]), d, up.q)
            ELSE NatDivStep(<<n[i]>> \o up.r, d, up.q)

\* floor(n / d), and whether the division leaves a remainder, for d > 0
NatDivMod(n, d) ==
    LET Quot(res) == [q |-> NatNorm(res.q), exact |-> res.r = <<>>]
        Div(nn, dd) == IF NatLt(nn, dd) THEN [q |-> <<>>, exact |-> n = <<>>]
                       ELSE Quot(NatDivModAt(nn, dd, 1))
        Norm(norm) == Div(NatShl(n, norm), NatShl(d, norm))
    IN Norm(12 - SmallBitLen(d[Len(d)]))

(***************************************************************************)
(* IEEE-754 binary64 values, as Python's float: sign, 53-bit significand   *)
(* m (2^52 <= m < 2^53, or zero) and exponent e, standing for m * 2^e.     *)
(* All operands here are far from the subnormal and overflow ranges.       *)
(***************************************************************************)
FloatZero == [neg |-> FALSE, m |-> <<>>, e |-> 0]

\* t * 2^e (t an unbounded natural, sticky: a nonzero part below t was cut off)
\* rounded to 53 bits, ties to even
RoundFloat(neg, t, e, sticky) ==
    LET Carry(m1, cut) ==
            IF NatBitLen(m1) = 54
            THEN [neg |-> neg, m |-> NatShr(m1, 1), e |-> e + cut + 1]
            ELSE [neg |-> neg, m |-> m1, e |-> e + cut]
        Round(keep, cut) ==
            Carry(IF /\ NatOdd(NatShr(t, cut - 1))
                     /\ (sticky \/ NatLowBits(t, cut - 1) \/ NatOdd(keep))
                  THEN NatAdd(keep, <<1>>)
                  ELSE keep, cut)
        Sized(len) ==
            IF len <= 53
            THEN [neg |-> neg, m |-> NatShl(t, 53 - len), e |-> e - (53 - len)]
            ELSE Round(NatShr(t, len - 53), len - 53)
    IN IF t = <<>> THEN FloatZero ELSE Sized(NatBitLen(t))

\* Python's int / int (true division, correctly rounded) for d > 0
TrueDiv(x, d) ==
    LET Rounded(qr, shift, lost) == RoundFloat(x.neg, qr.q, 0 - shift, lost \/ ~qr.exact)
        Scaled(shift) ==
            Rounded(NatDivMod(IF shift >= 0 THEN NatShl(x.mag, shift)
                              ELSE NatShr(x.mag, 0 - shift), d),
                    shift, shift < 0 /\ NatLowBits(x.mag, 0 - shift))
    IN IF x.mag = <<>> THEN FloatZero
       ELSE Scaled(56 + NatBitLen(d) - NatBitLen(x.mag))

FloatOne == [neg |-> FALSE, m |-> NatPow2(52), e |-> -52]

\* 1 + x in binary64
OnePlus(x) ==
    LET \* 1 = one * 2^e and |x| = xm * 2^e
        Sum(one, xm, e) ==
            RoundFloat(x.neg /\ NatLt(one, xm),
                       IF ~x.neg THEN NatAdd(one, xm)
                       ELSE IF NatLe(xm, one) THEN NatSub(one, xm)
                       ELSE NatSub(xm, one),
                       e, FALSE)
    IN IF x.m = <<>> THEN FloatOne
       ELSE Sum(IF x.e >= 0 THEN <<1>> ELSE NatPow2(0 - x.e),
                IF x.e >= 0 THEN NatShl(x.m, x.e) ELSE x.m,
                IF x.e >= 0 THEN 0 ELSE x.e)

\* -1, 0, 1 as |x| < |y|, |x| = |y|, |x| > |y|
FloatCmpAbs(x, y) ==
    IF x.m = <<>> /\ y.m = <<>> THEN 0
    ELSE IF x.m = <<>> THEN -1
    ELSE IF y.m = <<>> THEN 1
    ELSE IF x.e < y.e THEN -1
    ELSE IF x.e > y.e THEN 1
    ELSE NatCmp(x.m, y.m)

\* -1, 0, 1 as x < y, x = y, x > y
FloatCmp(x, y) ==
    LET xn == x.neg /\ x.m # <<>>
        yn == y.neg /\ y.m # <<>>
    IN IF xn /\ ~yn THEN -1
       ELSE IF ~xn /\ yn THEN 1
       ELSE IF xn THEN FloatCmpAbs(y, x)
       ELSE FloatCmpAbs(x, y)

(***************************************************************************)
(* src/vault.py: module constants.                                         *)
(***************************************************************************)
SECONDS_PER_YEAR == 31536000

\* 10**27
SPY_SCALE == NatMul(NatMul(NatOfSmall(1000000000), NatOfSmall(1000000000)),
                    NatOfSmall(1000000000))

\* 4294967295
UINT32_MAX == NatSub(NatPow2(32), <<1>>)

(***************************************************************************)
(* Strings of the hex blob: a character is a hex digit, held as its value  *)
(* 0..15 (upper and lower case read alike), or the letter x.               *)
(***************************************************************************)
HexDigits == 0..15
CharX == 16

StartsWith0x(s) == Len(s) >= 2 /\ s[1] = 0 /\ s[2] = CharX

\* the value of a string of hex digits, most significant first
HexValue(ds) ==
    LET n == Len(ds)
        D(i) == IF i >= 1 THEN ds[i] ELSE 0
    IN NatNorm([j \in 1..((n + 2) \div 3) |->
                   D(n - 3 * j + 1) * 256 + D(n - 3 * j + 2) * 16 + D(n - 3 * j + 3)])

\* int(s, 16): an optional 0x, then at least one hex digit, else ValueError
IntBase16(s) ==
    LET body == IF StartsWith0x(s) THEN SubSeq(s, 3, Len(s)) ELSE s
    IN IF body # <<>> /\ \A i \in 1..Len(body) : body[i] \in HexDigits
       THEN [exc |-> "None", val |-> HexValue(body)]
       ELSE [exc |-> "ValueError", val |-> <<>>]

(***************************************************************************)
(* to_apy.  The float it returns is pow_base ** SECONDS_PER_YEAR - 1 with  *)
(* pow_base = 1 + rate_per_sec / SPY_SCALE in binary64; the result is held *)
(* as pow_base, which determines it.  Python raises OverflowError when a   *)
(* float power exceeds the largest double: for the exponent                *)
(* SECONDS_PER_YEAR that is from |pow_base| = 1 + 101363937543 * 2^-52 on. *)
(***************************************************************************)
PowOverflowBase ==
    [neg |-> FALSE,
     m |-> NatAdd(NatPow2(52),
                  NatAdd(NatMul(NatOfSmall(101363), NatOfSmall(1000000)), NatOfSmall(937543))),
     e |-> -52]

to_apy(rate_per_sec) ==
    LET Power(pow_base) ==
            IF FloatCmpAbs(pow_base, PowOverflowBase) >= 0
            THEN [exc |-> "OverflowError", pow_base |-> pow_base]
            ELSE [exc |-> "None", pow_base |-> pow_base]
        Base(r_decimal) == Power(OnePlus(r_decimal))
    IN Base(TrueDiv(rate_per_sec, SPY_SCALE))

(***************************************************************************)
(* decode_kink_params.  A Python dict is a record: its keys are the        *)
(* record's DOMAIN.  The outcome is the dict returned, or the exception    *)
(* that leaves the function.                                               *)
(***************************************************************************)
EmptyDict == [k \in {} |-> 0]

Returns(d) == [exc |-> "None", ret |-> d]
Raises(e) == [exc |-> e, ret |-> EmptyDict]

StripPrefix(hex_in) == IF StartsWith0x(hex_in) THEN SubSeq(hex_in, 3, Len(hex_in)) ELSE hex_in

\* a mod 2^256
Wrap256(x) == [neg |-> FALSE, mag |-> NatNorm(SubSeq(x.mag \o [i \in 1..22 |-> 0], 1, 21)
                                     \o <<Limb(x.mag, 22) % 16>>)]

\* KinkLocals as fixed-width code would compute it: every product and sum is
\* kept to 256 bits
KinkLocalsWrapped(chunks) ==
    LET base_rate_raw == IntOfNat(chunks[1])
        slope1_raw == IntOfNat(chunks[2])
        slope2_raw == IntOfNat(chunks[3])
        kink_raw == IntOfNat(chunks[4])
        Rest(r_kink) ==
            [base_rate_raw |-> base_rate_raw, slope1_raw |-> slope1_raw,
             slope2_raw |-> slope2_raw, kink_raw |-> kink_raw,
             r0 |-> base_rate_raw, r_kink |-> r_kink,
             r_100 |-> IntAdd(r_kink, IntMul(slope2_raw,
                                             IntSub(IntOfNat(UINT32_MAX), kink_raw))),
             kink_util |-> TrueDiv(kink_raw, UINT32_MAX)]
    IN Rest(Wrap256(IntAdd(base_rate_raw, Wrap256(IntMul(slope1_raw, kink_raw)))))

\* the locals of decode_kink_params once the four chunks are parsed
KinkLocals(chunks) ==
    LET base_rate_raw == IntOfNat(chunks[1])
        slope1_raw == IntOfNat(chunks[2])
        slope2_raw == IntOfNat(chunks[3])
        kink_raw == IntOfNat(chunks[4])
        Rest(r_kink) ==
            [base_rate_raw |-> base_rate_raw, slope1_raw |-> slope1_raw,
             slope2_raw |-> slope2_raw, kink_raw |-> kink_raw,
             r0 |-> base_rate_raw, r_kink |-> r_kink,
             r_100 |-> IntAdd(r_kink, IntMul(slope2_raw,
                                             IntSub(IntOfNat(UINT32_MAX), kink_raw))),
             kink_util |-> TrueDiv(kink_raw, UINT32_MAX)]
    IN Rest(IntAdd(base_rate_raw, IntMul(slope1_raw, kink_raw)))

NoLocals == [reached |-> FALSE]

\* [out: what the call returns or raises, loc: its locals at that point]
RunDecode(hex_in) ==
    LET Knots(loc, apy) ==
            IF \E i \in 1..3 : apy[i].exc # "None"
            THEN [out |-> Raises("OverflowError"), loc |-> loc]
            ELSE [out |-> Returns([kinkPercent |-> loc.kink_util,
                                   baseRateApy |-> apy[1].pow_base,
                                   rateAtKink |-> apy[2].pow_base,
                                   maximumRate |-> apy[3].pow_base]),
                  loc |-> loc]
        Rates(loc) ==
            Knots(loc, [i \in 1..3 |-> to_apy(<<loc.r0, loc.r_kink, loc.r_100>>[i])])
        Chunks(parsed) ==
            IF \E i \in 1..4 : parsed[i].exc # "None"
            THEN [out |-> Raises("ValueError"), loc |-> NoLocals]
            ELSE Rates(KinkLocals([i \in 1..4 |-> parsed[i].val]))
        Body(s) ==
            IF Len(s) < 64 * 4
            THEN [out |-> Returns([error |-> "Insufficient params length"]), loc |-> NoLocals]
            ELSE Chunks([i \in 1..4 |-> IntBase16(SubSeq(s, (i - 1) * 64 + 1, i * 64))])
    IN Body(StripPrefix(hex_in))

decode_kink_params(hex_in) == RunDecode(hex_in).out

(***************************************************************************)
(* Rates, ratios and balances of the vault and strategy layers.  The code  *)
(* holds them as floats; here they are exact fractions num/den in lowest   *)
(* terms with den > 0, drawn from small grids.                             *)
(***************************************************************************)
RECURSIVE GCD(_, _)
GCD(a, b) == IF b = 0 THEN a ELSE GCD(b, a % b)

Abs(n) == IF n < 0 THEN 0 - n ELSE n

\* n/d in lowest terms, d # 0
Q(n, d) ==
    LET Lowest(g) == IF d < 0 THEN [num |-> (0 - n) \div g, den |-> (0 - d) \div g]
                     ELSE [num |-> n \div g, den |-> d \div g]
    IN Lowest(GCD(Abs(n), Abs(d)))

QZero == [num |-> 0, den |-> 1]
QOne == [num |-> 1, den |-> 1]

QAdd(x, y) == Q(x.num * y.den + y.num * x.den, x.den * y.den)
QSub(x, y) == Q(x.num * y.den - y.num * x.den, x.den * y.den)
QMul(x, y) == Q(x.num * y.num, x.den * y.den)
\* x / y for y # 0
QDiv(x, y) == Q(x.num * y.den, x.den * y.num)
QLe(x, y) == x.num * y.den <= y.num * x.den
QLt(x, y) == x.num * y.den < y.num * x.den

(***************************************************************************)
(* utils.calculate_yield_with_LTV is imported by src/strategy.py but its   *)
(* code is not in src/; it is modelled from spec.md, section 4.4:          *)
(* yield = gainApy + (ltv / (1 - ltv)) * (gainApy - costApy), and          *)
(* InvalidLTV for ltv >= 1.                                                *)
(***************************************************************************)
calculate_yield_with_LTV(gain, cost, ltv) ==
    IF QLe(QOne, ltv) THEN [exc |-> "InvalidLTV"]
    ELSE [exc |-> "None",
          ret |-> QAdd(gain, QMul(QDiv(ltv, QSub(QOne, ltv)), QSub(gain, cost)))]

(***************************************************************************)
(* src/strategy.py: class Strategy.  self is a record of the two vaults    *)
(* (the fields of Vault the methods read) and the two LTVs.  A method      *)
(* gives its locals gain, cost, the ltv it passed on, and the outcome of   *)
(* calculate_yield_with_LTV, which it returns or lets propagate.           *)
(***************************************************************************)
\* calculate_current_yield with the two scenarios' supply rates exchanged
calculate_current_yield_caps_rate(self) ==
    LET gain == QAdd(self.collateralVault.caps_supply_apy, self.collateralVault.nativeYield)
        cost == self.debtVault.current_borrow_apy
    IN [gain |-> gain, cost |-> cost, ltv |-> self.borrowLTV,
        out |-> calculate_yield_with_LTV(gain, cost, self.borrowLTV)]

\* calculate_current_yield passing cost and gain in each other's place
calculate_current_yield_swapped(self) ==
    LET gain == QAdd(self.collateralVault.current_supply_apy, self.collateralVault.nativeYield)
        cost == self.debtVault.current_borrow_apy
    IN [gain |-> gain, cost |-> cost, ltv |-> self.borrowLTV,
        out |-> calculate_yield_with_LTV(cost, gain, self.borrowLTV)]

calculate_current_yield(self) ==
    LET gain == QAdd(self.collateralVault.current_supply_apy, self.collateralVault.nativeYield)
        cost == self.debtVault.current_borrow_apy
    IN [gain |-> gain, cost |-> cost, ltv |-> self.borrowLTV,
        out |-> calculate_yield_with_LTV(gain, cost, self.borrowLTV)]

\* calculate_caps_yield passing borrowLTV instead of liquidationLTV
calculate_caps_yield_borrow_ltv(self) ==
    LET gain == QAdd(self.collateralVault.caps_supply_apy, self.collateralVault.nativeYield)
        cost == self.debtVault.caps_borrow_apy
    IN [gain |-> gain, cost |-> cost, ltv |-> self.borrowLTV,
        out |-> calculate_yield_with_LTV(gain, cost, self.borrowLTV)]

calculate_caps_yield(self) ==
    LET gain == QAdd(self.collateralVault.caps_supply_apy, self.collateralVault.nativeYield)
        cost == self.debtVault.caps_borrow_apy
    IN [gain |-> gain, cost |-> cost, ltv |-> self.liquidationLTV,
        out |-> calculate_yield_with_LTV(gain, cost, self.liquidationLTV)]

(***************************************************************************)
(* utils.calculate_rates is imported by src/vault.py and src/strategy.py   *)
(* but its code is not in src/; it is modelled from spec.md, section 4.3:  *)
(* the borrow APY is linear from (0, base) to (kink, rateAtKink) for a     *)
(* utilization up to the kink and linear from (kink, rateAtKink) to        *)
(* (1, maximumRate) beyond it; with kink = 0 utilization 0 gives base and  *)
(* the rest is second segment; with kink = 1 utilization 1 gives           *)
(* maximumRate; the supply APY is the borrow APY times the utilization.    *)
(* The result is the pair (borrow APY, supply APY).  The code calls it in  *)
(* two shapes: with the four knots, and with the dict that holds them.     *)
(***************************************************************************)
calculate_rates(utilization, kink, base, rate_at_kink, max_rate) ==
    LET Pair(borrow) == <<borrow, QMul(borrow, utilization)>>
    IN Pair(IF QLe(utilization, kink)
            THEN IF kink = QZero THEN base
                 ELSE IF kink = QOne /\ utilization = QOne THEN max_rate
                 ELSE QAdd(base, QMul(QDiv(utilization, kink), QSub(rate_at_kink, base)))
            ELSE IF kink = QOne THEN max_rate
                 ELSE QAdd(rate_at_kink,
                           QMul(QDiv(QSub(utilization, kink), QSub(QOne, kink)),
                                QSub(max_rate, rate_at_kink))))

calculate_rates_info(utilization, irm_info) ==
    calculate_rates(utilization, irm_info.kinkPercent, irm_info.baseRateApy,
                    irm_info.rateAtKink, irm_info.maximumRate)

(***************************************************************************)
(* src/strategy.py: Strategy.calculate_yield_with_utilization.  It gives   *)
(* its locals and the outcome of calculate_yield_with_LTV.                 *)
(***************************************************************************)
\* calculate_yield_with_utilization reading the collateral vault's knots for
\* the borrow rate
calculate_yield_with_utilization_one_vault(self, debt_utilization, collateral_utilization) ==
    LET Yield(borrow_rate, supply_rate) ==
            [debt_utilization |-> debt_utilization,
             collateral_utilization |-> collateral_utilization,
             borrow_rate |-> borrow_rate, supply_rate |-> supply_rate,
             gain |-> QAdd(supply_rate, self.collateralVault.nativeYield),
             cost |-> borrow_rate, ltv |-> self.borrowLTV,
             out |-> calculate_yield_with_LTV(
                         QAdd(supply_rate, self.collateralVault.nativeYield),
                         borrow_rate, self.borrowLTV)]
    IN Yield(calculate_rates_info(debt_utilization,
                                  self.collateralVault.interest_rate_model_info)[1],
             calculate_rates_info(collateral_utilization,
                                  self.collateralVault.interest_rate_model_info)[2])

\* calculate_yield_with_utilization evaluating each curve at the other
\* vault's utilization
calculate_yield_with_utilization_crossed(self, debt_utilization, collateral_utilization) ==
    LET Yield(borrow_rate, supply_rate) ==
            [debt_utilization |-> debt_utilization,
             collateral_utilization |-> collateral_utilization,
             borrow_rate |-> borrow_rate, supply_rate |-> supply_rate,
             gain |-> QAdd(supply_rate, self.collateralVault.nativeYield),
             cost |-> borrow_rate, ltv |-> self.borrowLTV,
             out |-> calculate_yield_with_LTV(
                         QAdd(supply_rate, self.collateralVault.nativeYield),
                         borrow_rate, self.borrowLTV)]
    IN Yield(calculate_rates_info(collateral_utilization,
                                  self.debtVault.interest_rate_model_info)[1],
             calculate_rates_info(debt_utilization,
                                  self.collateralVault.interest_rate_model_info)[2])

calculate_yield_with_utilization(self, debt_utilization, collateral_utilization) ==
    LET Yield(borrow_rate, supply_rate) ==
            [debt_utilization |-> debt_utilization,
             collateral_utilization |-> collateral_utilization,
             borrow_rate |-> borrow_rate, supply_rate |-> supply_rate,
             gain |-> QAdd(supply_rate, self.collateralVault.nativeYield),
             cost |-> borrow_rate, ltv |-> self.borrowLTV,
             out |-> calculate_yield_with_LTV(
                         QAdd(supply_rate, self.collateralVault.nativeYield),
                         borrow_rate, self.borrowLTV)]
    IN Yield(calculate_rates_info(debt_utilization,
                                  self.debtVault.interest_rate_model_info)[1],
             calculate_rates_info(collateral_utilization,
                                  self.collateralVault.interest_rate_model_info)[2])

(***************************************************************************)
(* src/vault.py: get_vault_info_json, from full_data (the on-chain tuple   *)
(* mapped to the schema) to the snapshot dict `filtered`.  Identity fields *)
(* that are copied unchanged are held by vault, vaultSymbol, assetSymbol.  *)
(* The parameter blob is held by its shape: whether it starts with 0x, the *)
(* number of hex characters after that, and what decode_kink_params gives  *)
(* for its first four words (SpecDecode covers how).                       *)
(***************************************************************************)
\* x / y on floats
PyDiv(x, y) ==
    IF y.num = 0 THEN [exc |-> "ZeroDivisionError", val |-> QZero]
    ELSE [exc |-> "None", val |-> QDiv(x, y)]

\* scale_factor = 10 ** vault_decimals if vault_decimals else 1
ScaleFactor(vault_decimals) ==
    IF vault_decimals # 0 THEN SmallPow(10, vault_decimals) ELSE 1

\* len(params_hex)
BlobLen(params_hex) == params_hex.hex_chars + (IF params_hex.prefix THEN 2 ELSE 0)

\* decode_kink_params(params_hex)
DecodedParams(params_hex) ==
    IF params_hex.hex_chars < 64 * 4
    THEN Returns([error |-> "Insufficient params length"])
    ELSE params_hex.decoded

\* filtered["interestRateModelInfo"], or the exception decode_kink_params raises
IrmInfo(irm_type, params_hex) ==
    IF BlobLen(params_hex) # 0
    THEN IF irm_type = "1" THEN DecodedParams(params_hex)
         ELSE IF irm_type = "" /\ BlobLen(params_hex) >= 2 + 64 * 4
         THEN DecodedParams(params_hex)
         ELSE Returns(EmptyDict)
    ELSE Returns(EmptyDict)

\* Utilization dividing whatever the denominator is
UtilizationUnguarded(numerator, denominator) == PyDiv(numerator, denominator)

\* current_utilization from (total_borrowed, total_assets) and
\* utilization_at_caps from (borrow_cap, supply_cap)
Utilization(numerator, denominator) ==
    IF QLt(QZero, denominator) THEN PyDiv(numerator, denominator)
    ELSE [exc |-> "None", val |-> QZero]

\* d.get(key, 0)
DictGet(d, key) == IF key \in DOMAIN d THEN d[key] ELSE QZero

\* SnapshotRates passing maximumRate and rateAtKink in each other's place
SnapshotRatesKnotsSwapped(irm_params, current_utilization, utilization_at_caps) ==
    IF irm_params # EmptyDict /\ "kinkPercent" \in DOMAIN irm_params
    THEN LET Cached(curr, caps) ==
                 [currentBorrowApy |-> curr[1], currentSupplyApy |-> curr[2],
                  capsBorrowApy |-> caps[1], capsSupplyApy |-> caps[2]]
         IN Cached(calculate_rates(current_utilization,
                                   DictGet(irm_params, "kinkPercent"),
                                   DictGet(irm_params, "baseRateApy"),
                                   DictGet(irm_params, "maximumRate"),
                                   DictGet(irm_params, "rateAtKink")),
                   calculate_rates(utilization_at_caps,
                                   DictGet(irm_params, "kinkPercent"),
                                   DictGet(irm_params, "baseRateApy"),
                                   DictGet(irm_params, "maximumRate"),
                                   DictGet(irm_params, "rateAtKink")))
    ELSE EmptyDict

\* SnapshotRates caching the caps evaluation under the current keys too
SnapshotRatesOneEvaluation(irm_params, current_utilization, utilization_at_caps) ==
    IF irm_params # EmptyDict /\ "kinkPercent" \in DOMAIN irm_params
    THEN LET Cached(curr, caps) ==
                 [currentBorrowApy |-> caps[1], currentSupplyApy |-> caps[2],
                  capsBorrowApy |-> caps[1], capsSupplyApy |-> caps[2]]
         IN Cached(calculate_rates(current_utilization,
                                   DictGet(irm_params, "kinkPercent"),
                                   DictGet(irm_params, "baseRateApy"),
                                   DictGet(irm_params, "rateAtKink"),
                                   DictGet(irm_params, "maximumRate")),
                   calculate_rates(utilization_at_caps,
                                   DictGet(irm_params, "kinkPercent"),
                                   DictGet(irm_params, "baseRateApy"),
                                   DictGet(irm_params, "rateAtKink"),
                                   DictGet(irm_params, "maximumRate")))
    ELSE EmptyDict

\* the four cached APYs, when the snapshot has knots
SnapshotRates(irm_params, current_utilization, utilization_at_caps) ==
    IF irm_params # EmptyDict /\ "kinkPercent" \in DOMAIN irm_params
    THEN LET Cached(curr, caps) ==
                 [currentBorrowApy |-> curr[1], currentSupplyApy |-> curr[2],
                  capsBorrowApy |-> caps[1], capsSupplyApy |-> caps[2]]
         IN Cached(calculate_rates(current_utilization,
                                   DictGet(irm_params, "kinkPercent"),
                                   DictGet(irm_params, "baseRateApy"),
                                   DictGet(irm_params, "rateAtKink"),
                                   DictGet(irm_params, "maximumRate")),
                   calculate_rates(utilization_at_caps,
                                   DictGet(irm_params, "kinkPercent"),
                                   DictGet(irm_params, "baseRateApy"),
                                   DictGet(irm_params, "rateAtKink"),
                                   DictGet(irm_params, "maximumRate")))
    ELSE EmptyDict

\* CollateralLTVInfo keeping every entry
CollateralLTVInfoUnfiltered(raw_ltv_info) ==
    [i \in 1..Len(raw_ltv_info) |->
        [collateral |-> raw_ltv_info[i].collateral,
         borrowLTV |-> Q(raw_ltv_info[i].borrowLTV, 10000),
         liquidationLTV |-> Q(raw_ltv_info[i].liquidationLTV, 10000)]]

\* filtered["collateralLTVInfo"]: the entries with borrowLTV # 0, scaled
CollateralLTVInfo(raw_ltv_info) ==
    LET Scaled(kept) ==
            [i \in 1..Len(kept) |->
                [collateral |-> kept[i].collateral,
                 borrowLTV |-> Q(kept[i].borrowLTV, 10000),
                 liquidationLTV |-> Q(kept[i].liquidationLTV, 10000)]]
    IN Scaled(SelectSeq(raw_ltv_info, LAMBDA item : Q(item.borrowLTV, 10000) # QZero))

get_vault_info_json(data) ==
    LET Filtered(scale_factor, irm, current_utilization, utilization_at_caps) ==
            IF irm.exc # "None" THEN Raises(irm.exc)
            ELSE IF current_utilization.exc # "None" THEN Raises(current_utilization.exc)
            ELSE IF utilization_at_caps.exc # "None" THEN Raises(utilization_at_caps.exc)
            ELSE Returns(SnapshotRates(irm.ret, current_utilization.val,
                                       utilization_at_caps.val)
                         @@ [vault |-> data.vault,
                             vaultSymbol |-> data.vaultSymbol,
                             vaultDecimals |-> data.vaultDecimals,
                             assetSymbol |-> data.assetSymbol,
                             totalCash |-> Q(data.totalCash, scale_factor),
                             totalBorrowed |-> Q(data.totalBorrowed, scale_factor),
                             totalAssets |-> Q(data.totalAssets, scale_factor),
                             supplyCap |-> Q(data.supplyCap, scale_factor),
                             borrowCap |-> Q(data.borrowCap, scale_factor),
                             interestRateModelInfo |-> irm.ret,
                             collateralLTVInfo |-> CollateralLTVInfo(data.collateralLTVInfo),
                             currentUtilization |-> current_utilization.val,
                             utilizationAtCaps |-> utilization_at_caps.val])
        Scaled(scale_factor) ==
            Filtered(scale_factor,
                     IrmInfo(data.interestRateModelType, data.interestRateModelParams),
                     Utilization(Q(data.totalBorrowed, scale_factor),
                                 Q(data.totalAssets, scale_factor)),
                     Utilization(Q(data.borrowCap, scale_factor),
                                 Q(data.supplyCap, scale_factor)))
    IN Scaled(ScaleFactor(data.vaultDecimals))

(***************************************************************************)
(* Python strings and None.  A str is the tuple of its characters and None *)
(* is the one-element tuple None, which is no str: its element is not a    *)
(* character.  Python floats that may be missing (NaN in a DataFrame) are  *)
(* fractions with NaN as 0/0.                                              *)
(***************************************************************************)
None == <<"None">>
\* bool(value) for a str or None
Truthy(value) == value # None /\ value # <<>>
\* a or b or c
FirstTruthy(a, b, c) == IF Truthy(a) THEN a ELSE IF Truthy(b) THEN b ELSE c

\* str.strip(): without the leading and the trailing blanks
Strip(s) ==
    LET Kept(inked) == IF inked = {} THEN <<>>
                       ELSE SubSeq(s, CHOOSE i \in inked : \A j \in inked : i <= j,
                                      CHOOSE i \in inked : \A j \in inked : j <= i)
    IN Kept({i \in 1..Len(s) : s[i] # " "})

NaN == [num |-> 0, den |-> 0]
\* pd.notna(value), pd.notnull(value)
NotNa(value) == value # NaN

(***************************************************************************)
(* A Python dict whose order of keys matters is the sequence of its        *)
(* <<key, value>> items in insertion order.                                *)
(***************************************************************************)
ItemKeys(d) == {d[i][1] : i \in 1..Len(d)}
\* d.get(key, missing)
ItemGet(d, key, missing) ==
    IF key \in ItemKeys(d) THEN d[CHOOSE i \in 1..Len(d) : d[i][1] = key][2] ELSE missing
\* d[key] = value
ItemSet(d, key, value) ==
    IF key \in ItemKeys(d)
    THEN [i \in 1..Len(d) |-> IF d[i][1] = key THEN <<key, value>> ELSE d[i]]
    ELSE Append(d, <<key, value>>)

(***************************************************************************)
(* src/vault.py, get_vault_info_json, lines 112-125: the on-chain read.    *)
(* chain_ gives, for a vault address, the data fetch_vault_info returns    *)
(* mapped to the schema, or the exception the read raises.                 *)
(***************************************************************************)
fetch_vault_info(chain_, vault_address) ==
    IF vault_address \notin DOMAIN chain_ THEN Raises("InvalidAddress")
    ELSE IF chain_[vault_address].fetch_exc # "None"
    THEN Raises(chain_[vault_address].fetch_exc)
    ELSE Returns(chain_[vault_address])

\* get_vault_info_json(vault_address), the read included
get_vault_info(chain_, vault_address) ==
    LET Mapped(raw_data) ==
            IF raw_data.exc # "None" THEN Raises(raw_data.exc)
            ELSE get_vault_info_json(raw_data.ret)
    IN Mapped(fetch_vault_info(chain_, vault_address))

(***************************************************************************)
(* src/vault.py: class Vault.  Of its fields the model keeps the address,  *)
(* the identity and symbols, the balances and caps, the knots, the         *)
(* collateral table, the six derived fields, nativeYield, error, fetched.  *)
(***************************************************************************)
\* the dataclass defaults, for the address given
VaultDefaults(vault_address) ==
    [vault_address |-> vault_address, nativeYield |-> QZero,
     vault |-> None, vault_symbol |-> None, vault_decimals |-> 0,
     asset_symbol |-> None,
     total_cash |-> QZero, total_borrowed |-> QZero, total_assets |-> QZero,
     supply_cap |-> QZero, borrow_cap |-> QZero,
     interest_rate_model_info |-> EmptyDict, collateral_ltv_info |-> <<>>,
     current_utilization |-> QZero, utilization_at_caps |-> QZero,
     current_borrow_apy |-> QZero, current_supply_apy |-> QZero,
     caps_borrow_apy |-> QZero, caps_supply_apy |-> QZero,
     error |-> None, fetched |-> FALSE]

\* Vault._as_float(data.get(key)): 0.0 for a missing key
AsFloat(data, key) == IF key \in DOMAIN data THEN data[key] ELSE QZero
\* Vault._as_str(data.get(key)): None for a missing key
AsStr(data, key) == IF key \in DOMAIN data THEN data[key] ELSE None

\* get_apy_by_pool_id(self.defillama_pool, self.defillama_field): the yield
\* index's answer for the vault; it never raises
get_apy_by_pool_id(chain_, vault_address) == chain_[vault_address].nativeYield

\* refresh putting the fields back to their defaults before it fetches
refreshClearingFirst(self, chain_) ==
    LET Assigned(info) ==
            IF info.exc # "None"
            THEN [exc |-> info.exc, self |-> VaultDefaults(self.vault_address)]
            ELSE [exc |-> "None",
                  self |-> [VaultDefaults(self.vault_address) EXCEPT
                               !.vault = AsStr(info.ret, "vault"),
                               !.supply_cap = AsFloat(info.ret, "supplyCap"),
                               !.borrow_cap = AsFloat(info.ret, "borrowCap"),
                               !.error = None,
                               !.fetched = TRUE]]
    IN Assigned(get_vault_info(chain_, self.vault_address))

\* Vault.refresh.  It gives the exception that leaves refresh, if any, and
\* the object as it is then.
refresh(self, chain_) ==
    LET Assigned(info) ==
            IF info.exc # "None" THEN [exc |-> info.exc, self |-> self]
            ELSE [exc |-> "None",
                  self |->
                    [self EXCEPT
                       !.vault = AsStr(info.ret, "vault"),
                       !.vault_symbol = AsStr(info.ret, "vaultSymbol"),
                       !.vault_decimals = info.ret.vaultDecimals,
                       !.asset_symbol = AsStr(info.ret, "assetSymbol"),
                       !.total_cash = AsFloat(info.ret, "totalCash"),
                       !.total_borrowed = AsFloat(info.ret, "totalBorrowed"),
                       !.total_assets = AsFloat(info.ret, "totalAssets"),
                       !.supply_cap = AsFloat(info.ret, "supplyCap"),
                       !.borrow_cap = AsFloat(info.ret, "borrowCap"),
                       !.interest_rate_model_info = info.ret.interestRateModelInfo,
                       !.collateral_ltv_info = info.ret.collateralLTVInfo,
                       !.current_utilization = AsFloat(info.ret, "currentUtilization"),
                       !.utilization_at_caps = AsFloat(info.ret, "utilizationAtCaps"),
                       !.current_borrow_apy = AsFloat(info.ret, "currentBorrowApy"),
                       !.current_supply_apy = AsFloat(info.ret, "currentSupplyApy"),
                       !.caps_borrow_apy = AsFloat(info.ret, "capsBorrowApy"),
                       !.caps_supply_apy = AsFloat(info.ret, "capsSupplyApy"),
                       !.nativeYield = get_apy_by_pool_id(chain_, self.vault_address),
                       !.error = None,
                       !.fetched = TRUE]]
    IN Assigned(get_vault_info(chain_, self.vault_address))

\* str(e): the message of an exception, held as one token
ExcStr(exc) == <<exc>>

\* Vault(vault_address): __post_init__ strips the address and calls refresh;
\* an exception of refresh is kept in error
Vault(vault_address, chain_) ==
    LET Caught(run) ==
            IF run.exc # "None"
            THEN [run.self EXCEPT !.error = ExcStr(run.exc), !.fetched = FALSE]
            ELSE run.self
    IN Caught(refresh(VaultDefaults(Strip(vault_address)), chain_))

(***************************************************************************)
(* src/strategy.py: Strategy.__post_init__ and construct_strategies, and   *)
(* src/main.py, lines 511-537: the strategy rows.  A str.format of the two *)
(* symbols around an arrow is their concatenation around Arrow.            *)
(***************************************************************************)
\* " \u2192 ": the arrow character is held as ">"
Arrow == <<" ", ">", " ">>

\* Strategy naming each side by the vault's own symbol alone
StrategyVaultSymbolOnly(debtVault, collateralVault, borrowLTV, liquidationLTV) ==
    [debtVault |-> debtVault, collateralVault |-> collateralVault,
     borrowLTV |-> borrowLTV, liquidationLTV |-> liquidationLTV,
     strategy_name |-> debtVault.vault_symbol \o Arrow \o collateralVault.vault_symbol]

\* Strategy(debtVault, collateralVault, borrowLTV, liquidationLTV)
Strategy(debtVault, collateralVault, borrowLTV, liquidationLTV) ==
    LET Named(debt_symbol, collateral_symbol) ==
            [debtVault |-> debtVault, collateralVault |-> collateralVault,
             borrowLTV |-> borrowLTV, liquidationLTV |-> liquidationLTV,
             strategy_name |-> debt_symbol \o Arrow \o collateral_symbol]
    IN Named(FirstTruthy(debtVault.asset_symbol, debtVault.vault_symbol,
                         debtVault.vault_address),
             FirstTruthy(collateralVault.asset_symbol, collateralVault.vault_symbol,
                         collateralVault.vault_address))

RECURSIVE ConcatAll(_)
ConcatAll(lists) == IF lists = <<>> THEN <<>> ELSE Head(lists) \o ConcatAll(Tail(lists))

\* construct_strategies(vault_object_map): one candidate dict per collateral
\* edge of every vault, in the order of the mapping and of the tables
construct_strategies(vault_object_map) ==
    LET OfVault(vault_key, vault_obj) ==
            LET Candidates(debt_asset, collateral_ltv_info) ==
                    [j \in 1..Len(collateral_ltv_info) |->
                        [debtAsset |-> debt_asset,
                         collateralAsset |-> collateral_ltv_info[j].collateral,
                         borrowLTV |-> collateral_ltv_info[j].borrowLTV,
                         liquidationLTV |-> collateral_ltv_info[j].liquidationLTV]]
            IN Candidates(IF Truthy(vault_obj.vault) THEN vault_obj.vault ELSE vault_key,
                          vault_obj.collateral_ltv_info)
    IN ConcatAll([i \in 1..Len(vault_object_map) |->
                     OfVault(vault_object_map[i][1], vault_object_map[i][2])])

\* src/main.py, lines 514-535, for one candidate s: what became of it, the
\* Strategy object if one was built, and its row if both yields returned
TryStrategy(s, vault_object_map) ==
    IF s.debtAsset \notin ItemKeys(vault_object_map)
          \/ s.collateralAsset \notin ItemKeys(vault_object_map)
    THEN [s |-> s, did |-> "skipped"]
    ELSE LET Rows(strategy_obj, current, caps) ==
                 IF current.out.exc # "None" \/ caps.out.exc # "None"
                 THEN [s |-> s, did |-> "caught", strategy_obj |-> strategy_obj]
                 ELSE [s |-> s, did |-> "appended", strategy_obj |-> strategy_obj,
                       row |-> [strategy |-> strategy_obj.strategy_name,
                                currentYield |-> current.out.ret,
                                capsYield |-> caps.out.ret]]
             Built(strategy_obj) ==
                 Rows(strategy_obj, calculate_current_yield(strategy_obj),
                      calculate_caps_yield(strategy_obj))
         IN Built(Strategy(ItemGet(vault_object_map, s.debtAsset, None),
                           ItemGet(vault_object_map, s.collateralAsset, None),
                           s.borrowLTV, s.liquidationLTV))

\* StrategyRows leaving the loop at the first candidate it cannot resolve
StrategyRowsBreak(vault_object_map) ==
    LET Stored(strategies, tried) ==
            [strategies |-> strategies, tried |-> tried,
             strategy_rows |->
                 LET appended == SelectSeq(tried, LAMBDA t : t.did = "appended")
                 IN [i \in 1..Len(appended) |-> appended[i].row]]
        UpToSkip(all) ==
            SubSeq(all, 1, IF \E i \in 1..Len(all) : all[i].did = "skipped"
                           THEN CHOOSE i \in 1..Len(all) :
                                   /\ all[i].did = "skipped"
                                   /\ \A j \in 1..(i - 1) : all[j].did # "skipped"
                           ELSE Len(all))
        Tried(strategies) ==
            Stored(strategies,
                   UpToSkip([i \in 1..Len(strategies) |->
                                TryStrategy(strategies[i], vault_object_map)]))
    IN Tried(construct_strategies(vault_object_map))

\* src/main.py, lines 511-537: the candidates, what became of each, and the
\* list stored as strategy_rows
StrategyRows(vault_object_map) ==
    LET Stored(strategies, tried) ==
            [strategies |-> strategies, tried |-> tried,
             strategy_rows |->
                 LET appended == SelectSeq(tried, LAMBDA t : t.did = "appended")
                 IN [i \in 1..Len(appended) |-> appended[i].row]]
        Tried(strategies) ==
            Stored(strategies,
                   [i \in 1..Len(strategies) |-> TryStrategy(strategies[i], vault_object_map)])
    IN Tried(construct_strategies(vault_object_map))

\* the Vault objects of a mapping: the mapping's values are places in heap
Deref(mapping, heap) ==
    [i \in 1..Len(mapping) |-> <<mapping[i][1], heap[mapping[i][2]]>>]

(***************************************************************************)
(* src/main.py: render.  A script run is one pass of render over the       *)
(* presets file and the session state; it ends at its last line, at        *)
(* st.rerun(), which starts the next pass at once, or at an exception.     *)
(* The run is carried as a record: presets (the list load_presets gave,    *)
(* as save_presets last wrote it), session_state, exc (the exception that  *)
(* ended the run), rerun (st.rerun() was called), saved (save_presets was  *)
(* called) and new_vaults (the list rebuilt from the vault editor).        *)
(* Of the selected cluster the model keeps the first of the file.  Of a    *)
(* DataFrame it keeps the rows, each a record of its columns; of the       *)
(* assumptions table the address, the caps and the four knots.  The        *)
(* assumptions editor's key and version are not kept: what the user typed  *)
(* is folded into assumptions_df by the run that sees it.                  *)
(***************************************************************************)
\* json.load of the file, and the file after json.dump: lists of dicts of str
load_presets(file) == file
save_presets(presets) == presets

\* lines 72-74: st.session_state["cluster_name"], all other keys dropped when
\* the selected cluster is another than the session's
SelectCluster(run) ==
    IF "cluster_name" \in DOMAIN run.session_state
          /\ run.session_state.cluster_name = run.presets[1].name
    THEN run
    ELSE [run EXCEPT !.session_state = [cluster_name |-> run.presets[1].name]]

\* lines 90-100: the frame the vault editor shows
VaultData(vaults_list) ==
    [i \in 1..Len(vaults_list) |->
        [Optics |-> vaults_list[i].optics, Address |-> vaults_list[i].address,
         DefiLlamaPool |-> vaults_list[i].defillama_pool, Field |-> vaults_list[i].field]]

\* lines 137-153: the list rebuilt from the editor's frame
NewVaults(edited_df) ==
    LET Rebuilt(valid_rows) ==
            [i \in 1..Len(valid_rows) |->
                [optics |-> Strip(valid_rows[i].Optics),
                 address |-> Strip(valid_rows[i].Address),
                 defillama_pool |-> Strip(valid_rows[i].DefiLlamaPool),
                 field |-> Strip(valid_rows[i].Field)]]
    IN Rebuilt(SelectSeq(edited_df, LAMBDA row : /\ Truthy(Strip(row.Optics))
                                                  /\ Truthy(Strip(row.Address))))

\* lines 84-158, Manage Vaults, edited_df being what st.data_editor returns
ManageVaults(run, edited_df) ==
    LET Compared(vaults_list, new_vaults) ==
            IF new_vaults # vaults_list
            THEN [run EXCEPT !.presets = save_presets([run.presets EXCEPT
                                                          ![1].vaults = new_vaults]),
                             !.saved = TRUE, !.rerun = TRUE, !.new_vaults = new_vaults]
            ELSE [run EXCEPT !.new_vaults = new_vaults]
    IN Compared(run.presets[1].vaults, NewVaults(edited_df))

\* _build_assumptions_df(vault_object_map_by_input); a knot the vault has not
\* is None in the row, NaN in the frame
build_assumptions_df(vault_object_map_by_input) ==
    [i \in 1..Len(vault_object_map_by_input) |->
        LET Row(input_addr, vault, irm) ==
                [inputAddress |-> input_addr,
                 supplyCap |-> vault.supply_cap, borrowCap |-> vault.borrow_cap,
                 kinkPercent |-> IF "kinkPercent" \in DOMAIN irm THEN irm.kinkPercent ELSE NaN,
                 baseRateApy |-> IF "baseRateApy" \in DOMAIN irm THEN irm.baseRateApy ELSE NaN,
                 rateAtKink |-> IF "rateAtKink" \in DOMAIN irm THEN irm.rateAtKink ELSE NaN,
                 maximumRate |-> IF "maximumRate" \in DOMAIN irm THEN irm.maximumRate ELSE NaN]
        IN Row(vault_object_map_by_input[i][1], vault_object_map_by_input[i][2],
               vault_object_map_by_input[i][2].interest_rate_model_info)]

\* d[pairs[1][1]] = pairs[1][2]; d[pairs[2][1]] = pairs[2][2]; ...
RECURSIVE ItemSetAll(_, _)
ItemSetAll(d, pairs) ==
    IF pairs = <<>> THEN d
    ELSE ItemSetAll(ItemSet(d, Head(pairs)[1], Head(pairs)[2]), Tail(pairs))

\* session_state.pop(key, None)
Pop(state, key) == [k \in DOMAIN state \ {key} |-> state[k]]

\* FetchClusterData writing each vault's symbol into its entry of the presets
FetchClusterDataSavingPresets(run, chain_) ==
    [run EXCEPT
        !.presets[1].vaults =
            [i \in 1..Len(run.presets[1].vaults) |->
                [optics |-> Vault(run.presets[1].vaults[i].address, chain_).vault_symbol,
                 address |-> run.presets[1].vaults[i].address,
                 defillama_pool |-> run.presets[1].vaults[i].defillama_pool,
                 field |-> run.presets[1].vaults[i].field]],
        !.session_state =
            [vaults |-> [i \in 1..Len(run.presets[1].vaults) |->
                            Vault(run.presets[1].vaults[i].address, chain_)]]
                @@ run.session_state]

\* lines 162-244, Fetch Cluster Data.  Vault(...) keeps its own exceptions, so
\* the try of lines 174-223 catches nothing and every entry gives a row.
FetchClusterData(run, chain_) ==
    LET Stored(vaults_to_process, heap) ==
            LET Written(vault_object_map_by_input, vault_object_map_by_vault) ==
                    [run EXCEPT !.session_state =
                        Pop([vaults |-> heap,
                             vault_object_map_by_input |-> vault_object_map_by_input,
                             vault_object_map_by_vault |-> vault_object_map_by_vault,
                             onchain_df |->
                                [i \in 1..Len(heap) |->
                                    [inputAddress |-> vaults_to_process[i].address,
                                     vault |-> heap[i].vault,
                                     supplyCap |-> heap[i].supply_cap,
                                     borrowCap |-> heap[i].borrow_cap,
                                     utilizationAtCaps |-> heap[i].utilization_at_caps,
                                     currentBorrowApy |-> heap[i].current_borrow_apy,
                                     currentSupplyApy |-> heap[i].current_supply_apy,
                                     capsBorrowApy |-> heap[i].caps_borrow_apy,
                                     capsSupplyApy |-> heap[i].caps_supply_apy]],
                             onchain_assumptions_df |->
                                build_assumptions_df(Deref(vault_object_map_by_input, heap)),
                             assumptions_df |->
                                build_assumptions_df(Deref(vault_object_map_by_input, heap)),
                             onchain_params_by_input |->
                                [i \in 1..Len(vault_object_map_by_input) |->
                                    LET Params(input_addr, v) ==
                                            <<input_addr,
                                              [supply_cap |-> v.supply_cap,
                                               borrow_cap |-> v.borrow_cap,
                                               irm |-> v.interest_rate_model_info]>>
                                    IN Params(vault_object_map_by_input[i][1],
                                              heap[vault_object_map_by_input[i][2]])]]
                            @@ run.session_state, "strategy_rows")]
            IN Written(ItemSetAll(<<>>, [i \in 1..Len(heap) |->
                                            <<vaults_to_process[i].address, i>>]),
                       ItemSetAll(<<>>, [i \in 1..Len(heap) |->
                                            <<IF Truthy(heap[i].vault) THEN heap[i].vault
                                              ELSE vaults_to_process[i].address, i>>]))
    IN Stored(run.presets[1].vaults,
              [i \in 1..Len(run.presets[1].vaults) |->
                  Vault(run.presets[1].vaults[i].address, chain_)])

\* format(x, ",.0f") and back: round(x) to the nearest integer, halves to the
\* even one, in decimal digits with a comma before every group of three
DecimalDigits == <<"0", "1", "2", "3", "4", "5", "6", "7", "8", "9">>
RoundHalfEven(x) ==
    LET Rounded(floor, twice_rest) ==
            IF twice_rest > x.den \/ (twice_rest = x.den /\ floor % 2 = 1)
            THEN floor + 1 ELSE floor
    IN Rounded(x.num \div x.den, 2 * (x.num % x.den))
RECURSIVE Numeral(_)
Numeral(n) ==
    IF n < 10 THEN <<DecimalDigits[n + 1]>>
    ELSE Append(Numeral(n \div 10), DecimalDigits[(n % 10) + 1])
Grouped(digits) ==
    ConcatAll([i \in 1..Len(digits) |->
                  IF i > 1 /\ (Len(digits) - i + 1) % 3 = 0 THEN <<",", digits[i]>>
                  ELSE <<digits[i]>>])
\* lambda x: f"{x:,.0f}" if pd.notnull(x) else ""
FormatCap(x) == IF NotNa(x) THEN Grouped(Numeral(RoundHalfEven(x))) ELSE <<>>
\* .str.replace(",", "")
ReplaceCommas(text) == SelectSeq(text, LAMBDA c : c # ",")
\* pd.to_numeric(text, errors='coerce') for a text of the editor
RECURSIVE DecimalValue(_)
DecimalValue(digits) ==
    IF digits = <<>> THEN 0
    ELSE 10 * DecimalValue(SubSeq(digits, 1, Len(digits) - 1))
            + (CHOOSE d \in 0..9 : DecimalDigits[d + 1] = digits[Len(digits)])
ToNumeric(text) ==
    IF text # <<>> /\ \A i \in 1..Len(text) : \E d \in 1..10 : DecimalDigits[d] = text[i]
    THEN Q(DecimalValue(text), 1)
    ELSE NaN

NoEdit == [row |-> 0, column |-> "none", value |-> NaN]
CapColumns == {"supplyCap", "borrowCap"}

\* lines 398-486: the assumptions editor.  edit is the cell the user changed
\* since the last run, if any; DataFrame.update keeps the old value where the
\* new one is NaN.
AssumptionsEditor(run, edit) ==
    LET Updated(df_full) ==
            [i \in 1..Len(df_full) |->
                [column \in DOMAIN df_full[i] |->
                    LET Cell(old, df_to_update) ==
                            IF NotNa(df_to_update) THEN df_to_update ELSE old
                    IN IF column = "inputAddress" THEN df_full[i][column]
                       ELSE IF column \in CapColumns
                       THEN Cell(df_full[i][column],
                                 ToNumeric(ReplaceCommas(
                                     IF edit.row = i /\ edit.column = column THEN edit.value
                                     ELSE FormatCap(df_full[i][column]))))
                       ELSE Cell(df_full[i][column],
                                 IF edit.row = i /\ edit.column = column THEN edit.value
                                 ELSE df_full[i][column])]]
    IN [run EXCEPT !.session_state.assumptions_df = Updated(run.session_state.assumptions_df)]

\* lines 373-396, Reset Assumptions to On-chain.  Vault has no
\* compute_derived_fields: line 393 raises AttributeError for the first
\* vault of onchain_params_by_input, after lines 389-392 wrote it.
ResetAssumptions(run) ==
    LET Restored(state) ==
            IF state.onchain_params_by_input = <<>>
            THEN [run EXCEPT !.session_state = Pop(state, "strategy_rows"), !.rerun = TRUE]
            ELSE LET Params(place, params) ==
                         [run EXCEPT
                            !.session_state =
                                [state EXCEPT
                                    !.vaults[place].supply_cap = params.supply_cap,
                                    !.vaults[place].borrow_cap = params.borrow_cap,
                                    !.vaults[place].interest_rate_model_info = params.irm],
                            !.exc = "AttributeError"]
                 IN Params(ItemGet(state.vault_object_map_by_input,
                                   state.onchain_params_by_input[1][1], 0),
                           state.onchain_params_by_input[1][2])
    IN Restored([run.session_state EXCEPT
                    !.assumptions_df = run.session_state.onchain_assumptions_df])

\* lines 503-508: the vault's knots with the row's, where the row has them
RowKnots(irm, row) ==
    [key \in {k \in {"kinkPercent", "baseRateApy", "rateAtKink", "maximumRate"} :
                 NotNa(row[k])} |-> row[key]] @@ irm

\* lines 488-537, Compute Strategies.  Line 509 raises AttributeError for the
\* first row whose vault is found, after lines 499-508 wrote it; with no such
\* row the strategies are built and stored.
ComputeStrategies(run) ==
    LET Applied(state, found) ==
            IF found = <<>>
            THEN [run EXCEPT !.session_state =
                     [strategy_rows |->
                         StrategyRows(Deref(state.vault_object_map_by_vault,
                                            state.vaults)).strategy_rows] @@ state]
            ELSE LET Written(row, place) ==
                         [run EXCEPT
                            !.session_state =
                                [state EXCEPT
                                    !.vaults[place].supply_cap =
                                        IF NotNa(row.supplyCap) THEN row.supplyCap ELSE @,
                                    !.vaults[place].borrow_cap =
                                        IF NotNa(row.borrowCap) THEN row.borrowCap ELSE @,
                                    !.vaults[place].interest_rate_model_info =
                                        RowKnots(@, row)],
                            !.exc = "AttributeError"]
                 IN Written(found[1],
                            ItemGet(state.vault_object_map_by_input,
                                    Strip(found[1].inputAddress), 0))
    IN Applied(run.session_state,
               SelectSeq(run.session_state.assumptions_df,
                         LAMBDA row : Strip(row.inputAddress)
                                         \in ItemKeys(run.session_state.vault_object_map_by_input)))

\* line 251: the sections under Fetch are shown when onchain_df has rows
HasOnchain(state) == "onchain_df" \in DOMAIN state /\ state.onchain_df # <<>>

\* render(): one script run with the button pressed and the widget values
\* given, and the run st.rerun() starts, which has no button pressed
Render(file, state, chain_, edited_df, button, edit) ==
    LET Sections(run) ==
            IF run.rerun THEN run
            ELSE LET Shown(fetched) ==
                         IF ~HasOnchain(fetched.session_state) THEN fetched
                         ELSE IF button = "Reset Assumptions to On-chain"
                         THEN ResetAssumptions(fetched)
                         ELSE LET Synced(edited) ==
                                      IF button = "Compute Strategies"
                                      THEN ComputeStrategies(edited)
                                      ELSE edited
                              IN Synced(AssumptionsEditor(fetched, edit))
                 IN Shown(IF button = "Fetch Cluster Data"
                          THEN FetchClusterData(run, chain_)
                          ELSE run)
        Again(run) ==
            IF ~run.rerun THEN run
            ELSE LET Managed(next) ==
                         IF HasOnchain(next.session_state) /\ ~next.rerun
                         THEN AssumptionsEditor(next, NoEdit)
                         ELSE next
                 IN Managed(ManageVaults([run EXCEPT !.rerun = FALSE],
                                         VaultData(run.presets[1].vaults)))
    IN Again(Sections(ManageVaults(SelectCluster([presets |-> load_presets(file),
                                                  session_state |-> state,
                                                  exc |-> "None", rerun |-> FALSE,
                                                  saved |-> FALSE, new_vaults |-> <<>>]),
                                   edited_df)))

NoStrategy == [constructed |-> FALSE]
NoApyCall == [called |-> FALSE]
NoPresets == <<>>
NoChain == EmptyDict
NoSession == EmptyDict
NoRender == [trigger |-> "none"]
AppIdle ==
    /\ presets_file = NoPresets
    /\ chain = NoChain
    /\ session_state = NoSession
    /\ last_run = NoRender
NoYieldCall == [method |-> "none"]
NoData == [fetched |-> FALSE]
NotBuilt == [exc |-> "NotRun", ret |-> EmptyDict]

(***************************************************************************)
(* SpecDecode: decode_kink_params applied to blobs.  A blob is an optional *)
(* 0x, four 64-digit words drawn from the tables below, cut short by up to *)
(* MaxShort digits or followed by up to MaxExtra further digits.           *)
(***************************************************************************)
MaxShort == 2
MaxExtra == 1

\* the 64 hex digits of a < 2^256, most significant first
Hex64(a) ==
    [j \in 1..64 |->
        LET pos == 64 - j
        IN (Limb(a, (pos \div 3) + 1) \div SmallPow(16, pos % 3)) % 16]

Word256Max == NatSub(NatPow2(256), <<1>>)
\* 1585489599188229325: five percent a year, per second, scaled by 10^27
RateFivePercent ==
    NatAdd(NatMul(NatOfSmall(1585489599), NatOfSmall(1000000000)), NatOfSmall(188229325))
\* 22507315465269963101624: the least rate whose APY is beyond a double
RateTooLarge ==
    NatAdd(NatMul(NatAdd(NatMul(NatOfSmall(22507), NatOfSmall(1000000000)),
                         NatOfSmall(315465269)),
                  NatOfSmall(1000000000)),
           NatOfSmall(963101624))

\* 1000000000: a slope that adds about seven percent a year over half the
\* utilization range
SlopeTypical == NatOfSmall(1000000000)

BaseRateWords == {<<>>, RateFivePercent, RateTooLarge}
Slope1Words == {<<>>, SlopeTypical, Word256Max}
Slope2Words == {<<>>, RateFivePercent}
KinkWords == {<<>>, NatOfSmall(2147483647), UINT32_MAX, NatPow2(32)}

Blob(prefix, w, delta) ==
    LET body == Hex64(w[1]) \o Hex64(w[2]) \o Hex64(w[3]) \o Hex64(w[4])
        sized == IF delta <= 0 THEN SubSeq(body, 1, 256 + delta)
                 ELSE body \o [i \in 1..delta |-> 15]
    IN (IF prefix THEN <<0, CharX>> ELSE <<>>) \o sized

Blobs ==
    {Blob(prefix, <<b, s1, s2, k>>, delta) :
        prefix \in BOOLEAN, b \in BaseRateWords, s1 \in Slope1Words,
        s2 \in Slope2Words, k \in KinkWords, delta \in (0 - MaxShort)..MaxExtra}

NotRun == [exc |-> "NotRun", ret |-> EmptyDict]

InitDecode ==
    /\ hex_str \in Blobs
    /\ dec = NotRun
    /\ locals = NoLocals
    /\ strategy = NoStrategy
    /\ yield_call = NoYieldCall
    /\ full_data = NoData
    /\ snapshot = NotBuilt
    /\ apy_call = NoApyCall
    /\ AppIdle

Decode ==
    /\ dec = NotRun
    /\ \E run \in {RunDecode(hex_str)} :
          /\ dec' = run.out
          /\ locals' = run.loc
    /\ UNCHANGED <<hex_str, yieldVars, vaultVars, apyVars, appVars>>

NextDecode == Decode

SpecDecode == InitDecode /\ [][NextDecode]_vars

(***************************************************************************)
(* SpecApy: to_apy applied to two per-second rates from the table below:   *)
(* 0, the least positive rates, rates on either side of 2^-53 * 10^27      *)
(* (half the spacing of doubles at 1), and rates around five percent a     *)
(* year.                                                                   *)
(***************************************************************************)
\* 10^11 and 10^12
TenTo11 == NatMul(NatOfSmall(100000), NatOfSmall(1000000))
TenTo12 == NatMulSmall(TenTo11, 10)

ApyRates ==
    {<<>>, NatOfSmall(1), NatOfSmall(2), TenTo11, NatAdd(TenTo11, <<1>>),
     NatMulSmall(TenTo11, 2), TenTo12, RateFivePercent,
     NatAdd(RateFivePercent, <<1>>), NatAdd(RateFivePercent, TenTo12)}

InitApy ==
    /\ apy_call \in {[called |-> FALSE, rates |-> <<a, b>>] : a \in ApyRates, b \in ApyRates}
    /\ hex_str = <<>>
    /\ dec = NotRun
    /\ locals = NoLocals
    /\ strategy = NoStrategy
    /\ yield_call = NoYieldCall
    /\ full_data = NoData
    /\ snapshot = NotBuilt
    /\ AppIdle

ToApy ==
    /\ ~apy_call.called
    /\ apy_call' = [called |-> TRUE, rates |-> apy_call.rates,
                    out |-> [i \in 1..2 |-> to_apy(IntOfNat(apy_call.rates[i]))]]
    /\ UNCHANGED <<decodeVars, yieldVars, vaultVars, appVars>>

NextApy == ToApy

SpecApy == InitApy /\ [][NextApy]_vars

(***************************************************************************)
(* SpecYield: the two yield methods called on Strategy objects whose       *)
(* vaults hold rates from the grids below.  LTVs reach and pass 1: the     *)
(* chain stores them as a 16-bit count of 1/10000.                         *)
(***************************************************************************)
SupplyApys == {Q(1, 50), Q(1, 20)}
BorrowApys == {Q(3, 100), Q(2, 25)}
NativeYields == {QZero, Q(1, 25)}
BorrowLTVs == {QZero, Q(1, 2), QOne, Q(6, 5)}
LiquidationLTVs == {Q(1, 2), Q(9, 10), QOne, Q(6, 5)}

VaultRates ==
    [current_supply_apy : SupplyApys, caps_supply_apy : SupplyApys,
     current_borrow_apy : BorrowApys, caps_borrow_apy : BorrowApys,
     nativeYield : NativeYields]

Strategies ==
    [debtVault : VaultRates, collateralVault : VaultRates,
     borrowLTV : BorrowLTVs, liquidationLTV : LiquidationLTVs]

InitYield ==
    /\ strategy \in Strategies
    /\ yield_call = NoYieldCall
    /\ hex_str = <<>>
    /\ dec = NotRun
    /\ locals = NoLocals
    /\ full_data = NoData
    /\ snapshot = NotBuilt
    /\ apy_call = NoApyCall
    /\ AppIdle

CalcCurrentYield ==
    /\ \E res \in {calculate_current_yield(strategy)} :
          yield_call' = [method |-> "calculate_current_yield", gain |-> res.gain,
                         cost |-> res.cost, ltv |-> res.ltv, out |-> res.out]
    /\ UNCHANGED <<strategy, decodeVars, vaultVars, apyVars, appVars>>

CalcCapsYield ==
    /\ \E res \in {calculate_caps_yield(strategy)} :
          yield_call' = [method |-> "calculate_caps_yield", gain |-> res.gain,
                         cost |-> res.cost, ltv |-> res.ltv, out |-> res.out]
    /\ UNCHANGED <<strategy, decodeVars, vaultVars, apyVars, appVars>>

NextYield == CalcCurrentYield \/ CalcCapsYield

SpecYield == InitYield /\ [][NextYield]_vars

(***************************************************************************)
(* SpecVault: the two places that evaluate the rate curve.                 *)
(* get_vault_info_json is applied to on-chain data whose knots, when the   *)
(* blob decodes, are knots decode_kink_params can give for a kink word up  *)
(* to UINT32_MAX: ordered, with rateAtKink = baseRateApy at kink 0 and     *)
(* maximumRate = rateAtKink at kink 1.  calculate_yield_with_utilization   *)
(* is applied to strategies whose vaults hold any knots: src/main.py       *)
(* (lines 503-508) stores the knots the user typed in                      *)
(* interest_rate_model_info.                                               *)
(***************************************************************************)
MaxDecimals == 2

Kinks == {QZero, Q(1, 2), QOne}
KnotRates == {Q(1, 50), Q(1, 20), Q(1, 5)}

AnyKnots ==
    [kinkPercent : Kinks, baseRateApy : {Q(1, 50), Q(1, 20)}, rateAtKink : KnotRates,
     maximumRate : {Q(1, 20), Q(1, 5)}]

DecodableKnots ==
    {k \in [kinkPercent : Kinks, baseRateApy : KnotRates, rateAtKink : KnotRates,
            maximumRate : KnotRates] :
        /\ QLe(k.baseRateApy, k.rateAtKink)
        /\ QLe(k.rateAtKink, k.maximumRate)
        /\ (k.kinkPercent = QZero => k.rateAtKink = k.baseRateApy)
        /\ (k.kinkPercent = QOne => k.maximumRate = k.rateAtKink)}

\* a blob too short to hold four words, with and without 0x, and the empty string
ShortBlobs ==
    {[prefix |-> p, hex_chars |-> n, decoded |-> Returns(EmptyDict)] :
        p \in BOOLEAN, n \in {0, 64 * 4 - 1}}
      \ {[prefix |-> TRUE, hex_chars |-> 0, decoded |-> Returns(EmptyDict)]}

\* a blob of four words, or of four words and a byte more
FullBlobs ==
    {[prefix |-> p, hex_chars |-> n, decoded |-> d] :
        p \in BOOLEAN, n \in {64 * 4, 64 * 4 + 2},
        d \in {Returns(k) : k \in DecodableKnots} \cup {Raises("OverflowError")}}

RawLTVInfos ==
    {<<>>,
     <<[collateral |-> "0xC0", borrowLTV |-> 0, liquidationLTV |-> 0]>>,
     <<[collateral |-> "0xC0", borrowLTV |-> 8000, liquidationLTV |-> 9000]>>}

FullDatas ==
    {[vault |-> "0xD0", vaultSymbol |-> "eUSD", assetSymbol |-> "USD",
      vaultDecimals |-> dc, totalCash |-> cash, totalBorrowed |-> borrowed,
      totalAssets |-> cash + borrowed, supplyCap |-> sc, borrowCap |-> bc,
      interestRateModelType |-> ty, interestRateModelParams |-> blob,
      collateralLTVInfo |-> ltv] :
        dc \in {0, MaxDecimals}, cash \in {0, 300}, borrowed \in {0, 100, 300},
        sc \in {0, 200}, bc \in {0, 100, 200, 400}, ty \in {"1", "", "2"},
        blob \in ShortBlobs \cup FullBlobs, ltv \in RawLTVInfos}

RateStrategies ==
    [debtVault : [interest_rate_model_info : AnyKnots, nativeYield : {QZero}],
     collateralVault : [interest_rate_model_info : AnyKnots, nativeYield : {Q(1, 25)}],
     borrowLTV : {Q(1, 2), QOne}, liquidationLTV : {Q(9, 10)}]

Utilizations == {QZero, Q(1, 4), Q(1, 2), Q(3, 4), QOne, Q(2, 1)}

InitVault ==
    /\ \/ full_data \in FullDatas /\ strategy = NoStrategy
       \/ full_data = NoData /\ strategy \in RateStrategies
    /\ snapshot = NotBuilt
    /\ yield_call = NoYieldCall
    /\ hex_str = <<>>
    /\ dec = NotRun
    /\ locals = NoLocals
    /\ apy_call = NoApyCall
    /\ AppIdle

BuildSnapshot ==
    /\ full_data # NoData
    /\ snapshot = NotBuilt
    /\ snapshot' = get_vault_info_json(full_data)
    /\ UNCHANGED <<full_data, yieldVars, decodeVars, apyVars, appVars>>

\* The method is pure and yield_call holds the last call only: it is taken
\* once per strategy, a second call would reach no further state.
YieldWithUtilization ==
    /\ strategy # NoStrategy
    /\ yield_call = NoYieldCall
    /\ \E debt_utilization \in Utilizations, collateral_utilization \in Utilizations :
          \E res \in {calculate_yield_with_utilization(strategy, debt_utilization,
                                                       collateral_utilization)} :
             yield_call' = [method |-> "calculate_yield_with_utilization"] @@ res
    /\ UNCHANGED <<strategy, vaultVars, decodeVars, apyVars, appVars>>

NextVault == BuildSnapshot \/ YieldWithUtilization

SpecVault == InitVault /\ [][NextVault]_vars

(***************************************************************************)
(* SpecStrategies: construct_strategies and the strategy rows of           *)
(* src/main.py (lines 511-537) over a mapping of two Vault objects, D and  *)
(* C, built from on-chain data.  The symbols of each are a text, the empty *)
(* string or missing.  D's collateral table has up to MaxEdges edges: to   *)
(* C, to C with borrowLTV 0, to C with liquidationLTV 1, or to X, which is *)
(* no key of the mapping.  collateral_ltv_info is a public field: D's      *)
(* table is either as refresh left it or assigned, unfiltered.             *)
(***************************************************************************)
MaxEdges == 2

AddrD == <<"D">>
AddrC == <<"C">>
AddrX == <<"X">>

TypicalKnots ==
    [kinkPercent |-> Q(1, 2), baseRateApy |-> Q(1, 50), rateAtKink |-> Q(1, 20),
     maximumRate |-> Q(1, 5)]
TypicalBlob == [prefix |-> TRUE, hex_chars |-> 64 * 4, decoded |-> Returns(TypicalKnots)]

\* what the chain holds for a vault: amounts in units of 10^-vaultDecimals,
\* LTVs in 1/10000
ChainVault(vault_address, vault_symbol, asset_symbol, decimals, amounts, irm_type, blob, raw_ltv_info) ==
    [fetch_exc |-> "None", vault |-> vault_address, vaultSymbol |-> vault_symbol,
     assetSymbol |-> asset_symbol, vaultDecimals |-> decimals,
     totalCash |-> amounts[1], totalBorrowed |-> amounts[2],
     totalAssets |-> amounts[1] + amounts[2],
     supplyCap |-> amounts[3], borrowCap |-> amounts[4],
     interestRateModelType |-> irm_type, interestRateModelParams |-> blob,
     collateralLTVInfo |-> raw_ltv_info, nativeYield |-> Q(1, 25)]

TypicalAmounts == <<300, 100, 200, 100>>

EdgesOfD ==
    {[collateral |-> AddrC, borrowLTV |-> 8000, liquidationLTV |-> 9000],
     [collateral |-> AddrC, borrowLTV |-> 0, liquidationLTV |-> 9000],
     [collateral |-> AddrC, borrowLTV |-> 9000, liquidationLTV |-> 10000],
     [collateral |-> AddrX, borrowLTV |-> 8000, liquidationLTV |-> 9000]}
TablesOfD == UNION {[1..n -> EdgesOfD] : n \in 0..MaxEdges}
TablesOfC == {<<>>, <<[collateral |-> AddrD, borrowLTV |-> 7000, liquidationLTV |-> 8000]>>}

SymbolsOf(text) == {None, <<>>, text}

\* vault.collateral_ltv_info = [...]: a table written to the field as it is
AssignedTable(raw_ltv_info) ==
    [i \in 1..Len(raw_ltv_info) |->
        [collateral |-> raw_ltv_info[i].collateral,
         borrowLTV |-> Q(raw_ltv_info[i].borrowLTV, 10000),
         liquidationLTV |-> Q(raw_ltv_info[i].liquidationLTV, 10000)]]

\* src/main.py, lines 187-189: the mapping by vault key of the objects in heap
MapByVault(addresses, heap) ==
    [i \in 1..Len(addresses) |->
        <<IF Truthy(heap[i].vault) THEN heap[i].vault ELSE addresses[i], i>>]

InitStrategies ==
    /\ \E vs \in [1..2 -> SymbolsOf(<<"e", "U">>)], as \in [1..2 -> SymbolsOf(<<"U">>)],
          td \in TablesOfD, tc \in TablesOfC, assigned \in BOOLEAN :
          /\ chain = [a \in {AddrD, AddrC} |->
                         IF a = AddrD
                         THEN ChainVault(a, vs[1], as[1], 0, TypicalAmounts, "1",
                                         TypicalBlob, td)
                         ELSE ChainVault(a, vs[2], as[2], 0, TypicalAmounts, "1",
                                         TypicalBlob, tc)]
          /\ \E heap \in {[i \in 1..2 |-> Vault(<<AddrD, AddrC>>[i], chain)]} :
                session_state =
                    [vaults |-> IF assigned
                                THEN [heap EXCEPT ![1].collateral_ltv_info = AssignedTable(td)]
                                ELSE heap,
                     vault_object_map_by_vault |-> MapByVault(<<AddrD, AddrC>>, heap)]
    /\ presets_file = NoPresets
    /\ last_run = NoRender
    /\ apy_call = NoApyCall
    /\ hex_str = <<>>
    /\ dec = NotRun
    /\ locals = NoLocals
    /\ strategy = NoStrategy
    /\ yield_call = NoYieldCall
    /\ full_data = NoData
    /\ snapshot = NotBuilt

\* src/main.py, lines 511-537, on the mapping in session_state
ComputeStrategyRows ==
    /\ last_run = NoRender
    /\ \E res \in {StrategyRows(Deref(session_state.vault_object_map_by_vault,
                                       session_state.vaults))} :
          /\ session_state' = [strategy_rows |-> res.strategy_rows] @@ session_state
          /\ last_run' = [trigger |-> "StrategyRows", exc |-> "None",
                          strategies |-> res.strategies, tried |-> res.tried]
    /\ UNCHANGED <<presets_file, chain, decodeVars, yieldVars, vaultVars, apyVars>>

NextStrategies == ComputeStrategyRows

SpecStrategies == InitStrategies /\ [][NextStrategies]_vars

(***************************************************************************)
(* SpecApp: the application of src/main.py, one action per script run.     *)
(* The presets file holds one cluster of up to two vaults, D and C, as     *)
(* written by hand (an address may carry a blank) or by the application.   *)
(* On chain D lists C as collateral; D's caps are whole or have a half     *)
(* (vaultDecimals 1) and its parameter blob is typical or too short.  The  *)
(* user edits the vault list, fetches, edits a cap or a knot, resets and   *)
(* computes, in any order the page allows.                                 *)
(***************************************************************************)
ClusterName == <<"c">>
Cfg(optics, address) ==
    [optics |-> optics, address |-> address, defillama_pool |-> <<>>, field |-> <<>>]
CfgD == Cfg(<<"D">>, AddrD)
CfgC == Cfg(<<"C">>, AddrC)
\* lists a presets file may hold before the application has opened it
StoredLists == {<<CfgD, CfgC>>, <<Cfg(<<"D">>, <<" ", "D">>), CfgC>>, <<CfgD>>}
\* frames the user may leave in the vault editor: a row removed, a row added,
\* a row with a blank address, a row with a blank after the address
EditedFrames ==
    {VaultData(l) : l \in {<<CfgD>>, <<CfgD, CfgC>>, <<CfgD, Cfg(<<"C">>, <<" ">>)>>,
                           <<Cfg(<<"D">>, <<"D", " ">>)>>}}
ShortBlob == [prefix |-> TRUE, hex_chars |-> 64 * 4 - 1, decoded |-> Returns(EmptyDict)]
CapAmounts == <<300, 100, 25, 10>>
Chains ==
    {[a \in {AddrD, AddrC} |->
         IF a = AddrD
         THEN ChainVault(a, <<"e", "U">>, <<"U">>, decimals, CapAmounts, "1", blob,
                         <<[collateral |-> AddrC, borrowLTV |-> 8000,
                            liquidationLTV |-> 9000]>>)
         ELSE ChainVault(a, <<"e", "W">>, <<"W">>, 0, TypicalAmounts, "1", TypicalBlob,
                         <<>>)] :
        decimals \in {0, 1}, blob \in {TypicalBlob, ShortBlob}}
\* what the user may type into a cell of the assumptions editor
CellEdits ==
    <<[column |-> "supplyCap", value |-> <<"5", "0">>],
      [column |-> "supplyCap", value |-> <<>>],
      [column |-> "kinkPercent", value |-> Q(4, 5)]>>

InitApp ==
    /\ presets_file \in {<<[name |-> ClusterName, vaults |-> l]>> : l \in StoredLists}
    /\ chain \in Chains
    /\ session_state = NoSession
    /\ last_run = NoRender
    /\ apy_call = NoApyCall
    /\ hex_str = <<>>
    /\ dec = NotRun
    /\ locals = NoLocals
    /\ strategy = NoStrategy
    /\ yield_call = NoYieldCall
    /\ full_data = NoData
    /\ snapshot = NotBuilt

\* the end of a run: the file and the session as the run left them
Rendered(trigger, run) ==
    /\ presets_file' = run.presets
    /\ session_state' = run.session_state
    /\ last_run' = [trigger |-> trigger, exc |-> run.exc, saved |-> run.saved,
                    new_vaults |-> run.new_vaults]
    /\ UNCHANGED <<chain, decodeVars, yieldVars, vaultVars, apyVars>>

\* line 371-488: the assumptions editor and Compute Strategies are on the
\* page when the last run got to them
EditorShown ==
    /\ HasOnchain(session_state)
    /\ last_run.exc = "None" \/ last_run.trigger = "Compute Strategies"

\* the first run of a session
OpenApp ==
    /\ last_run = NoRender
    /\ \E run \in {Render(presets_file, session_state, chain,
                          VaultData(presets_file[1].vaults), "none", NoEdit)} :
          Rendered("open", run)

\* the run after the user changed the vault editor
EditVaults ==
    /\ last_run # NoRender
    /\ \E edited_df \in EditedFrames :
          \E run \in {Render(presets_file, session_state, chain, edited_df, "none",
                             NoEdit)} :
             Rendered("Manage Vaults in Cluster", run)

FetchCluster ==
    /\ last_run # NoRender
    /\ \E run \in {Render(presets_file, session_state, chain,
                          VaultData(presets_file[1].vaults), "Fetch Cluster Data",
                          NoEdit)} :
          Rendered("Fetch Cluster Data", run)

\* the run after the user changed a cell of the assumptions editor
EditAssumptions ==
    /\ last_run # NoRender
    /\ EditorShown
    /\ \E row \in 1..Len(session_state.assumptions_df), cell \in 1..Len(CellEdits) :
          \E run \in {Render(presets_file, session_state, chain,
                             VaultData(presets_file[1].vaults), "none",
                             [row |-> row] @@ CellEdits[cell])} :
             Rendered("Assumptions", run)

ResetToOnchain ==
    /\ last_run # NoRender
    /\ HasOnchain(session_state)
    /\ \E run \in {Render(presets_file, session_state, chain,
                          VaultData(presets_file[1].vaults),
                          "Reset Assumptions to On-chain", NoEdit)} :
          Rendered("Reset Assumptions to On-chain", run)

ComputeStrategiesRun ==
    /\ last_run # NoRender
    /\ EditorShown
    /\ \E run \in {Render(presets_file, session_state, chain,
                          VaultData(presets_file[1].vaults), "Compute Strategies",
                          NoEdit)} :
          Rendered("Compute Strategies", run)

NextApp ==
    \/ OpenApp
    \/ EditVaults
    \/ FetchCluster
    \/ EditAssumptions
    \/ ResetToOnchain
    \/ ComputeStrategiesRun

SpecApp == InitApp /\ [][NextApp]_vars

(***************************************************************************)
(* SpecRefresh: one Vault object, D, constructed and then refreshed any    *)
(* number of times.  What the chain gives for D is drawn anew at every     *)
(* call: the read fails (no RPC), or it returns data whose blob decodes,   *)
(* is too short, or makes decode_kink_params raise OverflowError, under an  *)
(* IRM type that is decoded ("1") or not ("2").                             *)
(***************************************************************************)
OverflowBlob == [prefix |-> TRUE, hex_chars |-> 64 * 4, decoded |-> Raises("OverflowError")]
RefreshChains ==
    {[a \in {AddrD} |->
         [ChainVault(a, <<"e", "U">>, <<"U">>, 0, amounts, ty, blob, <<>>)
             EXCEPT !.fetch_exc = fetch_exc]] :
        amounts \in {TypicalAmounts, CapAmounts},
        ty \in {"1", "2"},
        blob \in {TypicalBlob, ShortBlob, OverflowBlob},
        fetch_exc \in {"None", "RuntimeError"}}

InitRefresh ==
    /\ chain \in RefreshChains
    /\ session_state = NoSession
    /\ last_run = NoRender
    /\ presets_file = NoPresets
    /\ apy_call = NoApyCall
    /\ hex_str = <<>>
    /\ dec = NotRun
    /\ locals = NoLocals
    /\ strategy = NoStrategy
    /\ yield_call = NoYieldCall
    /\ full_data = NoData
    /\ snapshot = NotBuilt

\* Vault(AddrD): __post_init__ lets no exception of refresh out
ConstructVault ==
    /\ session_state = NoSession
    /\ session_state' = [vaults |-> <<Vault(AddrD, chain)>>]
    /\ last_run' = [trigger |-> "Vault", exc |-> "None", before |-> VaultDefaults(AddrD)]
    /\ UNCHANGED <<presets_file, chain, decodeVars, yieldVars, vaultVars, apyVars>>

\* vault.refresh(), the chain being what it is at the time of the call
RefreshVault ==
    /\ session_state # NoSession
    /\ \E chain_ \in RefreshChains :
          \E run \in {refresh(session_state.vaults[1], chain_)} :
             /\ chain' = chain_
             /\ session_state' = [vaults |-> <<run.self>>]
             /\ last_run' = [trigger |-> "refresh", exc |-> run.exc,
                             before |-> session_state.vaults[1]]
    /\ UNCHANGED <<presets_file, decodeVars, yieldVars, vaultVars, apyVars>>

NextRefresh == ConstructVault \/ RefreshVault

SpecRefresh == InitRefresh /\ [][NextRefresh]_vars

(***************************************************************************)
(* Claims about decode_kink_params.                                        *)
(***************************************************************************)
KnotKeys == {"kinkPercent", "baseRateApy", "rateAtKink", "maximumRate"}

Decoded == dec.exc # "NotRun"

\* the hex characters left after one optional leading 0x is stripped
HexCharCount == Len(StripPrefix(hex_str))

\* C1: decode_kink_params fails exactly when the input, one optional leading
\* 0x stripped, has fewer than 256 hex characters: such an input gives an
\* error value holding none of the four knots, and every input of 256 or more
\* hex characters gives the four knots and no error.
C1_FailsExactlyWhenShort ==
    Decoded =>
        IF HexCharCount < 256
        THEN /\ dec.exc = "None"
             /\ "error" \in DOMAIN dec.ret
             /\ DOMAIN dec.ret \cap KnotKeys = {}
        ELSE /\ dec.exc = "None"
             /\ DOMAIN dec.ret = KnotKeys

\* Residues modulo 36 primes below 2^15, whose product exceeds 2^539: two
\* integers of fewer than 538 bits with the same residues are the same integer.
CheckPrimes ==
    {32749, 32719, 32717, 32713, 32707, 32693, 32687, 32653, 32647,
     32633, 32621, 32611, 32609, 32603, 32587, 32579, 32573, 32569,
     32563, 32561, 32537, 32533, 32531, 32507, 32503, 32497, 32491,
     32479, 32467, 32443, 32441, 32429, 32423, 32413, 32411, 32401}

\* chunk i (0..3) of the stripped input modulo p, from its characters directly
RECURSIVE DigitsMod(_, _, _, _)
DigitsMod(ds, p, lo, hi) ==
    IF lo > hi THEN 0
    ELSE IF lo = hi THEN ds[lo] % p
    ELSE LET mid == (lo + hi) \div 2
         IN (DigitsMod(ds, p, lo, mid) * PowMod(16, hi - mid, p)
               + DigitsMod(ds, p, mid + 1, hi)) % p

ChunkMod(i, p) == DigitsMod(StripPrefix(hex_str), p, i * 64 + 1, (i + 1) * 64)

IntMod(x, p) == IF x.neg THEN (p - NatModSmall(x.mag, p)) % p ELSE NatModSmall(x.mag, p)

\* 4294967295 mod p, as (2^32 - 1) mod p
Uint32MaxMod(p) == (PowMod(2, 32, p) + p - 1) % p

\* C2: r0 = baseRateRaw, rKink = baseRateRaw + slope1Raw * kinkRaw and
\* r100 = rKink + slope2Raw * (UINT32_MAX - kinkRaw) hold as exact integers of
\* the four 64-character big-endian chunks, with no wrap-around at 2^256.
C2_KnotsAreExactIntegers ==
    (Decoded /\ "r0" \in DOMAIN locals) =>
        /\ NatBitLen(locals.r0.mag) < 538
        /\ NatBitLen(locals.r_kink.mag) < 538
        /\ NatBitLen(locals.r_100.mag) < 538
        /\ \A p \in CheckPrimes :
              LET b == ChunkMod(0, p)
                  s1 == ChunkMod(1, p)
                  s2 == ChunkMod(2, p)
                  k == ChunkMod(3, p)
                  rk == (b + ((s1 * k) % p)) % p
              IN /\ IntMod(locals.r0, p) = b
                 /\ IntMod(locals.r_kink, p) = rk
                 /\ IntMod(locals.r_100, p)
                      = (rk + ((s2 * ((Uint32MaxMod(p) + p - k) % p)) % p)) % p

\* a decode in which slope1Raw * kinkRaw, and so rKink, is beyond 2^256
C2_Witness ==
    /\ Decoded
    /\ "r_kink" \in DOMAIN locals
    /\ NatBitLen(locals.r_kink.mag) > 256
    /\ NatBitLen(locals.r_100.mag) > 256

\* C3: every successful decode has kinkPercent = kinkRaw / UINT32_MAX in [0, 1].
C3_KinkPercentInUnitInterval ==
    (Decoded /\ dec.exc = "None" /\ "kinkPercent" \in DOMAIN dec.ret) =>
        /\ FloatCmp(dec.ret.kinkPercent, FloatZero) >= 0
        /\ FloatCmp(dec.ret.kinkPercent, FloatOne) <= 0

\* What SpecVault takes for granted of decoded knots: a kink word of 0 gives
\* kinkPercent 0 and rateAtKink = baseRateApy, a kink word of UINT32_MAX gives
\* kinkPercent 1 and maximumRate = rateAtKink, and for every kink word up to
\* UINT32_MAX the knots are ordered.
DecodedKnotsShape ==
    (Decoded /\ dec.exc = "None" /\ "kinkPercent" \in DOMAIN dec.ret) =>
        /\ locals.kink_raw.mag = <<>> =>
              /\ dec.ret.kinkPercent = FloatZero
              /\ dec.ret.rateAtKink = dec.ret.baseRateApy
        /\ locals.kink_raw.mag = UINT32_MAX =>
              /\ dec.ret.kinkPercent = FloatOne
              /\ dec.ret.maximumRate = dec.ret.rateAtKink
        /\ NatLe(locals.kink_raw.mag, UINT32_MAX) =>
              /\ FloatCmp(dec.ret.baseRateApy, dec.ret.rateAtKink) <= 0
              /\ FloatCmp(dec.ret.rateAtKink, dec.ret.maximumRate) <= 0

\* C20: in every successful decode the per-second knots are non-negative and
\* ordered, r0 <= rKink <= r100, and so are the APYs made of them,
\* baseRateApy <= rateAtKink <= maximumRate, whatever the four words are.
C20_KnotsOrdered ==
    (Decoded /\ dec.exc = "None" /\ "kinkPercent" \in DOMAIN dec.ret) =>
        /\ ~locals.r0.neg /\ ~locals.r_kink.neg /\ ~locals.r_100.neg
        /\ IntLe(locals.r0, locals.r_kink)
        /\ IntLe(locals.r_kink, locals.r_100)
        /\ FloatCmp(dec.ret.baseRateApy, dec.ret.rateAtKink) <= 0
        /\ FloatCmp(dec.ret.rateAtKink, dec.ret.maximumRate) <= 0

\* C15: to_apy(0) is exactly 0.0, and for integer rates 0 < a < b,
\* to_apy(a) < to_apy(b).  The float returned is pow_base ** SECONDS_PER_YEAR
\* - 1, which is the same float for the same pow_base: the order of the two
\* results needs the order of the two pow_base.
C15_ToApyStrictlyIncreasing ==
    apy_call.called =>
        /\ \A i \in 1..2 :
              apy_call.rates[i] = <<>> =>
                  apy_call.out[i] = [exc |-> "None", pow_base |-> FloatOne]
        /\ (apy_call.rates[1] # <<>> /\ NatLt(apy_call.rates[1], apy_call.rates[2])) =>
              /\ apy_call.out[1].exc = "None"
              /\ apy_call.out[2].exc = "None"
              /\ FloatCmp(apy_call.out[1].pow_base, apy_call.out[2].pow_base) < 0

(***************************************************************************)
(* Claims about the strategy yield.                                        *)
(***************************************************************************)
YieldCalled == yield_call.method # "none"

\* y = gain + (ltv / (1 - ltv)) * (gain - cost), both sides multiplied by 1 - ltv
IsLeveredYield(y, gain, cost, ltv) ==
    QMul(y, QSub(QOne, ltv))
        = QAdd(QMul(gain, QSub(QOne, ltv)), QMul(ltv, QSub(gain, cost)))

\* C4: for every gain, cost and every ltv in [0, 1) the yield a Strategy method
\* returns is gain + (ltv / (1 - ltv)) * (gain - cost); at ltv = 0 it is gain.
C4_YieldFormula ==
    (YieldCalled /\ QLe(QZero, yield_call.ltv) /\ QLt(yield_call.ltv, QOne)) =>
        /\ yield_call.out.exc = "None"
        /\ IsLeveredYield(yield_call.out.ret, yield_call.gain, yield_call.cost,
                          yield_call.ltv)
        /\ (yield_call.ltv = QZero => yield_call.out.ret = yield_call.gain)

\* a levered yield: 0 < ltv < 1 and gain differs from cost
C4_Witness ==
    /\ YieldCalled
    /\ yield_call.ltv = Q(1, 2)
    /\ yield_call.gain # yield_call.cost
    /\ yield_call.out.exc = "None"
    /\ yield_call.out.ret # yield_call.gain

\* C5: calculate_current_yield with borrowLTV >= 1 and calculate_caps_yield
\* with liquidationLTV >= 1 fail with InvalidLTV and return no value.
C5_InvalidLTV ==
    /\ (yield_call.method = "calculate_current_yield" /\ QLe(QOne, strategy.borrowLTV))
          => yield_call.out = [exc |-> "InvalidLTV"]
    /\ (yield_call.method = "calculate_caps_yield" /\ QLe(QOne, strategy.liquidationLTV))
          => yield_call.out = [exc |-> "InvalidLTV"]

\* calculate_caps_yield fails at liquidationLTV = 1 although borrowLTV is below 1
C5_Witness ==
    /\ yield_call.method = "calculate_caps_yield"
    /\ strategy.liquidationLTV = QOne
    /\ QLt(strategy.borrowLTV, QOne)
    /\ yield_call.out.exc = "InvalidLTV"

\* the strategies that differ from s at most in what the named scenario's
\* method must not read: the other scenario's rates and LTV, and the debt
\* vault's nativeYield
SameForCurrent(s) ==
    {[s EXCEPT !.debtVault.nativeYield = ny,
               !.debtVault.caps_borrow_apy = cb,
               !.debtVault.caps_supply_apy = cs,
               !.collateralVault.caps_supply_apy = cs2,
               !.collateralVault.caps_borrow_apy = cb2,
               !.liquidationLTV = lt] :
        ny \in NativeYields, cb \in BorrowApys, cs \in SupplyApys,
        cs2 \in SupplyApys, cb2 \in BorrowApys, lt \in LiquidationLTVs}

SameForCaps(s) ==
    {[s EXCEPT !.debtVault.nativeYield = ny,
               !.debtVault.current_borrow_apy = cb,
               !.debtVault.current_supply_apy = cs,
               !.collateralVault.current_supply_apy = cs2,
               !.collateralVault.current_borrow_apy = cb2,
               !.borrowLTV = lt] :
        ny \in NativeYields, cb \in BorrowApys, cs \in SupplyApys,
        cs2 \in SupplyApys, cb2 \in BorrowApys, lt \in BorrowLTVs}

\* C6: calculate_current_yield is the yield formula at gain = collateral
\* current supply APY + collateral nativeYield, cost = debt current borrow APY,
\* ltv = borrowLTV; calculate_caps_yield is the formula at the caps rates and
\* liquidationLTV; neither outcome changes with the other scenario's rates or
\* the debt vault's nativeYield.
C6_YieldWiring ==
    /\ yield_call.method = "calculate_current_yield" =>
          /\ yield_call.gain = QAdd(strategy.collateralVault.current_supply_apy,
                                    strategy.collateralVault.nativeYield)
          /\ yield_call.cost = strategy.debtVault.current_borrow_apy
          /\ yield_call.ltv = strategy.borrowLTV
          /\ yield_call.out
                = calculate_yield_with_LTV(yield_call.gain, yield_call.cost, yield_call.ltv)
          /\ \A other \in SameForCurrent(strategy) :
                calculate_current_yield(other).out = yield_call.out
    /\ yield_call.method = "calculate_caps_yield" =>
          /\ yield_call.gain = QAdd(strategy.collateralVault.caps_supply_apy,
                                    strategy.collateralVault.nativeYield)
          /\ yield_call.cost = strategy.debtVault.caps_borrow_apy
          /\ yield_call.ltv = strategy.liquidationLTV
          /\ yield_call.out
                = calculate_yield_with_LTV(yield_call.gain, yield_call.cost, yield_call.ltv)
          /\ \A other \in SameForCaps(strategy) :
                calculate_caps_yield(other).out = yield_call.out

\* a caps yield of a strategy whose two scenarios differ in every rate and LTV
C6_Witness ==
    /\ yield_call.method = "calculate_caps_yield"
    /\ yield_call.out.exc = "None"
    /\ strategy.collateralVault.current_supply_apy # strategy.collateralVault.caps_supply_apy
    /\ strategy.debtVault.current_borrow_apy # strategy.debtVault.caps_borrow_apy
    /\ strategy.borrowLTV # strategy.liquidationLTV
    /\ strategy.debtVault.nativeYield # QZero

(***************************************************************************)
(* Claims about the rate curve and the vault snapshot.                     *)
(***************************************************************************)
SnapshotBuilt == snapshot.exc = "None"
HasRates == SnapshotBuilt /\ "currentBorrowApy" \in DOMAIN snapshot.ret
UtilizationYieldCalled == yield_call.method = "calculate_yield_with_utilization"

InUnit(x) == QLe(QZero, x) /\ QLe(x, QOne)

\* borrow, the borrow APY at utilization u, is the knot at u = 0, u = kink, u = 1
BorrowAtEveryKnot(u, knots, borrow) ==
    InUnit(knots.kinkPercent) =>
        /\ (u = QZero => borrow = knots.baseRateApy)
        /\ (u = knots.kinkPercent => borrow = knots.rateAtKink)
        /\ (u = QOne => borrow = knots.maximumRate)

\* the same, the kink knot only for a kink strictly inside (0, 1)
BorrowAtKnots(u, knots, borrow) ==
    InUnit(knots.kinkPercent) =>
        /\ (u = QZero => borrow = knots.baseRateApy)
        /\ ((u = knots.kinkPercent /\ QLt(QZero, u) /\ QLt(u, QOne))
               => borrow = knots.rateAtKink)
        /\ (u = QOne => borrow = knots.maximumRate)

OrderedKnots(knots) ==
    /\ QLe(knots.baseRateApy, knots.rateAtKink)
    /\ QLe(knots.rateAtKink, knots.maximumRate)

\* C8: for knots with baseRateApy <= rateAtKink <= maximumRate the borrow APY
\* is non-decreasing in the utilization over [0, 1]: the two evaluations a
\* snapshot caches are ordered as their utilizations are, and the borrow rate
\* of a utilization yield is at most the borrow APY at every higher utilization.
C8_BorrowApyMonotone ==
    /\ ( /\ HasRates
         /\ OrderedKnots(snapshot.ret.interestRateModelInfo)
         /\ InUnit(snapshot.ret.currentUtilization)
         /\ InUnit(snapshot.ret.utilizationAtCaps) ) =>
          /\ QLe(snapshot.ret.currentUtilization, snapshot.ret.utilizationAtCaps)
                => QLe(snapshot.ret.currentBorrowApy, snapshot.ret.capsBorrowApy)
          /\ QLe(snapshot.ret.utilizationAtCaps, snapshot.ret.currentUtilization)
                => QLe(snapshot.ret.capsBorrowApy, snapshot.ret.currentBorrowApy)
    /\ ( /\ UtilizationYieldCalled
         /\ OrderedKnots(strategy.debtVault.interest_rate_model_info)
         /\ InUnit(yield_call.debt_utilization) ) =>
          \A u2 \in Utilizations :
              (InUnit(u2) /\ QLe(yield_call.debt_utilization, u2)) =>
                  QLe(yield_call.borrow_rate,
                      calculate_rates_info(u2, strategy.debtVault.interest_rate_model_info)[1])

\* a snapshot whose two utilizations lie on the two sides of the kink, with
\* strictly rising knots
C8_Witness ==
    /\ HasRates
    /\ QLt(snapshot.ret.interestRateModelInfo.baseRateApy,
           snapshot.ret.interestRateModelInfo.rateAtKink)
    /\ QLt(snapshot.ret.interestRateModelInfo.rateAtKink,
           snapshot.ret.interestRateModelInfo.maximumRate)
    /\ QLt(snapshot.ret.currentUtilization, snapshot.ret.interestRateModelInfo.kinkPercent)
    /\ QLt(snapshot.ret.interestRateModelInfo.kinkPercent, snapshot.ret.utilizationAtCaps)
    /\ QLt(QZero, snapshot.ret.currentUtilization)
    /\ QLt(snapshot.ret.currentBorrowApy, snapshot.ret.capsBorrowApy)

\* C9: the supply APY of an evaluation is its borrow APY times the
\* utilization, so 0 at utilization 0 and the borrow APY at utilization 1: for
\* both evaluations a snapshot caches and for the supply rate of a
\* utilization yield.
C9_SupplyIsBorrowTimesUtilization ==
    /\ HasRates =>
          /\ snapshot.ret.currentSupplyApy
                = QMul(snapshot.ret.currentBorrowApy, snapshot.ret.currentUtilization)
          /\ snapshot.ret.capsSupplyApy
                = QMul(snapshot.ret.capsBorrowApy, snapshot.ret.utilizationAtCaps)
          /\ (snapshot.ret.currentUtilization = QZero
                => snapshot.ret.currentSupplyApy = QZero)
          /\ (snapshot.ret.currentUtilization = QOne
                => snapshot.ret.currentSupplyApy = snapshot.ret.currentBorrowApy)
          /\ (snapshot.ret.utilizationAtCaps = QZero
                => snapshot.ret.capsSupplyApy = QZero)
          /\ (snapshot.ret.utilizationAtCaps = QOne
                => snapshot.ret.capsSupplyApy = snapshot.ret.capsBorrowApy)
    /\ UtilizationYieldCalled =>
          yield_call.supply_rate
             = QMul(calculate_rates_info(yield_call.collateral_utilization,
                        strategy.collateralVault.interest_rate_model_info)[1],
                    yield_call.collateral_utilization)

\* a snapshot whose current and caps utilizations differ and are neither 0 nor 1
C9_Witness ==
    /\ HasRates
    /\ snapshot.ret.currentUtilization = Q(1, 4)
    /\ snapshot.ret.utilizationAtCaps = Q(1, 2)
    /\ snapshot.ret.currentSupplyApy # QZero
    /\ snapshot.ret.currentSupplyApy # snapshot.ret.currentBorrowApy
    /\ snapshot.ret.currentSupplyApy # snapshot.ret.capsSupplyApy

\* C10: get_vault_info_json never fails dividing by zero, and in the snapshot
\* currentUtilization is totalBorrowed / totalAssets when totalAssets > 0 and
\* 0 when it is 0; utilizationAtCaps is borrowCap / supplyCap when
\* supplyCap > 0 and 0 when it is 0.
C10_UtilizationGuards ==
    /\ snapshot.exc # "ZeroDivisionError"
    /\ SnapshotBuilt =>
          /\ IF QLt(QZero, snapshot.ret.totalAssets)
             THEN QMul(snapshot.ret.currentUtilization, snapshot.ret.totalAssets)
                     = snapshot.ret.totalBorrowed
             ELSE snapshot.ret.currentUtilization = QZero
          /\ IF QLt(QZero, snapshot.ret.supplyCap)
             THEN QMul(snapshot.ret.utilizationAtCaps, snapshot.ret.supplyCap)
                     = snapshot.ret.borrowCap
             ELSE snapshot.ret.utilizationAtCaps = QZero

\* a snapshot of an empty vault without a supply cap but with a borrow cap
C10_Witness ==
    /\ SnapshotBuilt
    /\ snapshot.ret.totalAssets = QZero
    /\ snapshot.ret.supplyCap = QZero
    /\ snapshot.ret.borrowCap # QZero
    /\ snapshot.ret.currentUtilization = QZero
    /\ snapshot.ret.utilizationAtCaps = QZero

\* borrow is what the degenerate kinks ask of the borrow APY at utilization u:
\* at kink 0, baseRateApy for u = 0 and the line from (0, rateAtKink) to
\* (1, maximumRate) for u > 0; at kink 1, maximumRate for u = 1; and it is a
\* number in both cases
DegenerateKink(u, knots, borrow) ==
    /\ knots.kinkPercent = QZero =>
          /\ borrow.den > 0
          /\ (u = QZero => borrow = knots.baseRateApy)
          /\ (QLt(QZero, u) =>
                 borrow = QAdd(knots.rateAtKink,
                               QMul(u, QSub(knots.maximumRate, knots.rateAtKink))))
    /\ knots.kinkPercent = QOne =>
          /\ borrow.den > 0
          /\ (u = QOne => borrow = knots.maximumRate)

\* C17: with kinkPercent 0, utilization 0 gives baseRateApy, not rateAtKink,
\* and every utilization above 0 is on the line from (0, rateAtKink) to
\* (1, maximumRate); with kinkPercent 1, utilization 1 gives maximumRate; no
\* evaluation divides by zero in either case.
C17_DegenerateKinks ==
    /\ snapshot.exc # "ZeroDivisionError"
    /\ HasRates =>
          /\ DegenerateKink(snapshot.ret.currentUtilization,
                            snapshot.ret.interestRateModelInfo,
                            snapshot.ret.currentBorrowApy)
          /\ DegenerateKink(snapshot.ret.utilizationAtCaps,
                            snapshot.ret.interestRateModelInfo,
                            snapshot.ret.capsBorrowApy)
    /\ UtilizationYieldCalled =>
          DegenerateKink(yield_call.debt_utilization,
                         strategy.debtVault.interest_rate_model_info,
                         yield_call.borrow_rate)

\* a utilization yield at kink 0 and utilization 1/2 whose borrow rate is
\* half way from rateAtKink to maximumRate, with baseRateApy below both
C17_Witness ==
    /\ UtilizationYieldCalled
    /\ strategy.debtVault.interest_rate_model_info
          = [kinkPercent |-> QZero, baseRateApy |-> Q(1, 50), rateAtKink |-> Q(1, 20),
             maximumRate |-> Q(1, 5)]
    /\ yield_call.debt_utilization = Q(1, 2)
    /\ yield_call.collateral_utilization = QOne
    /\ yield_call.borrow_rate = Q(1, 8)

(***************************************************************************)
(* Claims about the strategy builder.                                      *)
(***************************************************************************)
RowsComputed == last_run.trigger = "StrategyRows" /\ "tried" \in DOMAIN last_run
MappingKeys == ItemKeys(session_state.vault_object_map_by_vault)
\* the collateral edges of all the vaults of the mapping
EdgeCount ==
    Len(ConcatAll([i \in 1..Len(session_state.vault_object_map_by_vault) |->
          session_state.vaults[session_state.vault_object_map_by_vault[i][2]].collateral_ltv_info]))

PositiveBorrowLTVs ==
    /\ \A i \in 1..Len(last_run.strategies) :
          QLt(QZero, last_run.strategies[i].borrowLTV)
    /\ \A i \in 1..Len(last_run.tried) :
          "strategy_obj" \in DOMAIN last_run.tried[i] =>
              QLt(QZero, last_run.tried[i].strategy_obj.borrowLTV)

\* every vault's collateral table is the one get_vault_info_json gives for
\* what the chain holds for the vault
TablesAsFetched ==
    \A i \in 1..Len(session_state.vaults) :
        LET v == session_state.vaults[i]
        IN /\ v.fetched
           /\ v.collateral_ltv_info = CollateralLTVInfo(chain[v.vault_address].collateralLTVInfo)

NameSide(v) ==
    IF v.asset_symbol # None /\ v.asset_symbol # <<>> THEN v.asset_symbol
    ELSE IF v.vault_symbol # None /\ v.vault_symbol # <<>> THEN v.vault_symbol
    ELSE v.vault_address

\* C14: each side of a Strategy's name is, independently, the first available
\* of the vault's asset symbol, its own symbol and its address, and neither
\* side is empty or None for any combination of present, missing and empty
\* symbols.
C14_StrategyName ==
    RowsComputed =>
        \A i \in 1..Len(last_run.tried) :
            "strategy_obj" \in DOMAIN last_run.tried[i] =>
                LET o == last_run.tried[i].strategy_obj
                IN /\ o.strategy_name = NameSide(o.debtVault) \o Arrow \o NameSide(o.collateralVault)
                   /\ NameSide(o.debtVault) \notin {<<>>, None}
                   /\ NameSide(o.collateralVault) \notin {<<>>, None}
                   /\ "row" \in DOMAIN last_run.tried[i] =>
                          last_run.tried[i].row.strategy = o.strategy_name

\* a row named by D's address, D having no asset symbol and an empty symbol
\* of its own, and by C's own symbol, C having an empty asset symbol
C14_Witness ==
    /\ RowsComputed
    /\ Len(last_run.tried) >= 1
    /\ last_run.tried[1].did = "appended"
    /\ last_run.tried[1].strategy_obj.debtVault.asset_symbol = None
    /\ last_run.tried[1].strategy_obj.debtVault.vault_symbol = <<>>
    /\ last_run.tried[1].strategy_obj.collateralVault.asset_symbol = <<>>
    /\ last_run.tried[1].strategy_obj.collateralVault.vault_symbol = <<"e", "U">>
    /\ last_run.tried[1].row.strategy = <<"D", " ", ">", " ", "e", "U">>

(***************************************************************************)
(* Claims about the application.                                           *)
(***************************************************************************)
Fetched == "vaults" \in DOMAIN session_state

\* utilization_at_caps and the four cached APYs of v are what its caps and,
\* if it has knots, its knots give
DerivedFieldsMatch(v) ==
    /\ v.utilization_at_caps
          = (IF QLt(QZero, v.supply_cap) THEN QDiv(v.borrow_cap, v.supply_cap) ELSE QZero)
    /\ "kinkPercent" \in DOMAIN v.interest_rate_model_info =>
          LET Curve(u) ==
                  calculate_rates(u, v.interest_rate_model_info.kinkPercent,
                                  v.interest_rate_model_info.baseRateApy,
                                  v.interest_rate_model_info.rateAtKink,
                                  v.interest_rate_model_info.maximumRate)
          IN /\ <<v.current_borrow_apy, v.current_supply_apy>> = Curve(v.current_utilization)
             /\ <<v.caps_borrow_apy, v.caps_supply_apy>> = Curve(v.utilization_at_caps)

\* C11: a Compute Strategies run applies the assumptions to the vaults,
\* recomputes their derived fields and then computes the strategy yields:
\* the run stores strategy rows, and then every vault's utilization_at_caps
\* is borrow_cap / supply_cap (0 if supply_cap = 0) for its current caps and
\* its cached APYs are the rate curve at its current knots.
C11_DerivedFieldsRecomputed ==
    last_run.trigger = "Compute Strategies" =>
        /\ last_run.exc = "None"
        /\ "strategy_rows" \in DOMAIN session_state
        /\ \A i \in 1..Len(session_state.vaults) :
              DerivedFieldsMatch(session_state.vaults[i])

\* the chain holds for v a blob of type "1" that is too short to decode
ShortBlobOnChain(v) ==
    /\ v.vault_address \in DOMAIN chain
    /\ chain[v.vault_address].interestRateModelType = "1"
    /\ chain[v.vault_address].interestRateModelParams.hex_chars \in 1..(64 * 4 - 1)

\* C16: a fetched vault whose parameter blob is too short to decode is not
\* held as successfully fetched with borrow and supply APYs of 0, and its
\* row of the on-chain table does not show APYs of 0.
C16_ShortBlobIsFailure ==
    Fetched =>
        \A i \in 1..Len(session_state.vaults) :
            ShortBlobOnChain(session_state.vaults[i]) =>
                /\ ~(/\ session_state.vaults[i].fetched
                      /\ session_state.vaults[i].error = None
                      /\ session_state.vaults[i].current_borrow_apy = QZero
                      /\ session_state.vaults[i].current_supply_apy = QZero)
                /\ ~(/\ session_state.onchain_df[i].currentBorrowApy = QZero
                      /\ session_state.onchain_df[i].currentSupplyApy = QZero)

\* C18: after a fetch and any edits and Compute Strategies runs, a Reset
\* Assumptions to On-chain run completes and leaves every fetched vault with
\* the caps and knots captured at the last fetch and derived fields that
\* match them, the assumptions table equal to the on-chain one, and no
\* stored strategy rows.
C18_ResetRestoresOnchain ==
    last_run.trigger = "Reset Assumptions to On-chain" =>
        /\ last_run.exc = "None"
        /\ \A k \in 1..Len(session_state.onchain_params_by_input) :
              LET params == session_state.onchain_params_by_input[k][2]
                  v == session_state.vaults[
                           ItemGet(session_state.vault_object_map_by_input,
                                   session_state.onchain_params_by_input[k][1], 0)]
              IN /\ v.supply_cap = params.supply_cap
                 /\ v.borrow_cap = params.borrow_cap
                 /\ v.interest_rate_model_info = params.irm
                 /\ DerivedFieldsMatch(v)
        /\ session_state.assumptions_df = session_state.onchain_assumptions_df
        /\ "strategy_rows" \notin DOMAIN session_state

\* a run of the page that the vault editor did not start
OtherRuns ==
    {"Fetch Cluster Data", "Assumptions", "Reset Assumptions to On-chain",
     "Compute Strategies"}
PresetsStep ==
    /\ last_run'.saved <=> (last_run'.new_vaults # presets_file[1].vaults)
    /\ presets_file' # presets_file => last_run'.saved
    /\ last_run'.trigger \in OtherRuns =>
          (~last_run'.saved /\ presets_file' = presets_file)

\* C19: save_presets is called in a run exactly when the list rebuilt from
\* the vault editor differs from the cluster's stored list; the file changes
\* in no other run; and the runs of Fetch, of an assumptions edit, of Reset
\* and of Compute Strategies neither call it nor change the file.
C19_PresetsWrittenByVaultEditorOnly == [][PresetsStep]_vars

\* a Compute Strategies run that left alone a file the vault editor had cut
\* to one vault after two were fetched
C19_Witness ==
    /\ last_run.trigger = "Compute Strategies"
    /\ ~last_run.saved
    /\ presets_file[1].vaults = <<CfgD>>
    /\ Fetched
    /\ Len(session_state.vaults) = 2
    /\ session_state.vaults[1].supply_cap = Q(50, 1)

(***************************************************************************)
(* Claims about the parameter blob in the snapshot.                        *)
(***************************************************************************)
\* C22: for IRM type "1" or no type, a blob of at least 256 hex characters
\* after an optional 0x, whose four words decode, gives a snapshot that
\* carries the decoded knots and the four cached APYs computed from them,
\* with the 0x prefix or without it.
C22_FullBlobDecoded ==
    (/\ snapshot.exc # "NotRun"
     /\ full_data.interestRateModelType \in {"1", ""}
     /\ full_data.interestRateModelParams.hex_chars >= 64 * 4
     /\ full_data.interestRateModelParams.decoded.exc = "None") =>
        /\ snapshot.exc = "None"
        /\ snapshot.ret.interestRateModelInfo = full_data.interestRateModelParams.decoded.ret
        /\ "currentBorrowApy" \in DOMAIN snapshot.ret
        /\ <<snapshot.ret.currentBorrowApy, snapshot.ret.currentSupplyApy>>
              = calculate_rates(snapshot.ret.currentUtilization,
                                snapshot.ret.interestRateModelInfo.kinkPercent,
                                snapshot.ret.interestRateModelInfo.baseRateApy,
                                snapshot.ret.interestRateModelInfo.rateAtKink,
                                snapshot.ret.interestRateModelInfo.maximumRate)
        /\ <<snapshot.ret.capsBorrowApy, snapshot.ret.capsSupplyApy>>
              = calculate_rates(snapshot.ret.utilizationAtCaps,
                                snapshot.ret.interestRateModelInfo.kinkPercent,
                                snapshot.ret.interestRateModelInfo.baseRateApy,
                                snapshot.ret.interestRateModelInfo.rateAtKink,
                                snapshot.ret.interestRateModelInfo.maximumRate)

(***************************************************************************)
(* Claims about Vault construction and refresh.                            *)
(***************************************************************************)
\* C21: once a Vault is constructed, and after every later refresh() that
\* succeeds or raises, fetched is True exactly when error is None;
\* construction lets no exception of the fetch out: it is kept in error, with
\* fetched False; and a refresh() that raises leaves every field as it was.
C21_FetchedIffNoError ==
    Fetched =>
        /\ session_state.vaults[1].fetched <=> (session_state.vaults[1].error = None)
        /\ last_run.trigger = "Vault" =>
              /\ last_run.exc = "None"
              /\ get_vault_info(chain, AddrD).exc # "None" =>
                    /\ ~session_state.vaults[1].fetched
                    /\ session_state.vaults[1].error
                          = ExcStr(get_vault_info(chain, AddrD).exc)
              /\ get_vault_info(chain, AddrD).exc = "None" =>
                    session_state.vaults[1].fetched
        /\ (last_run.trigger = "refresh" /\ last_run.exc # "None") =>
              session_state.vaults[1] = last_run.before
        /\ (last_run.trigger = "refresh" /\ last_run.exc = "None") =>
              session_state.vaults[1].fetched

\* a refresh() that raised OverflowError out of the decoding, on a vault that
\* an earlier call had fetched with caps 25 and 10
C21_Witness ==
    /\ Fetched
    /\ last_run.trigger = "refresh"
    /\ last_run.exc = "OverflowError"
    /\ last_run.before.fetched
    /\ session_state.vaults[1].fetched
    /\ session_state.vaults[1].error = None
    /\ session_state.vaults[1].supply_cap = Q(25, 1)
    /\ chain[AddrD].supplyCap = 200

====
